---- MODULE Spec2Model ----
(***************************************************************************)
(* Model of the AlphaWEEX supervisor and safety core: Guardrails           *)
(* (stability lock, equity kill-switch, code audit), the Architect's       *)
(* evolution protocol with the adversarial screen and EvolutionMemory,     *)
(* and the SharedState record written by the Oracle, the sentiment agent   *)
(* and NarrativePulse and read by Architect.get_adjusted_size.             *)
(*                                                                         *)
(* Time is counted in whole hours.  Fractions are scaled integers:         *)
(* drawdowns in 1e-5, the kill-switch threshold in percent, the sentiment  *)
(* multiplier in hundredths, position sizes in 1e-4 of a unit.             *)
(***************************************************************************)
EXTENDS Integers, Sequences, FiniteSets, TLC

(***************************************************************************)
(* Bounds of the model                                                     *)
(***************************************************************************)
MaxTime == 3           \* the clock stops advancing here
MaxHistory == 3        \* update_equity calls modelled (SpecGuard)
MaxArchHistory == 2    \* update_equity calls modelled next to the Architect (SpecKill)
\* Guardrails(stability_lock_hours=...): a configuration value
\* (STABILITY_LOCK_HOURS, 12 by default); the model runs with a shorter
\* lock so that two evolutions fit into the modelled time.
stability_lock_hours == 2
MaxBlacklist == 1      \* blacklist entries modelled
MaxSizings == 1        \* get_adjusted_size calls modelled
MaxWrites == 2         \* writes modelled per SharedState producer
MaxRecords == 2        \* record_evolution calls modelled with their save (SpecSave)
MaxRestarts == 1       \* process restarts modelled (SpecSave)
MaxVersion == 2        \* prompt versions modelled
\* EvolutionaryMutator(evolution_interval_hours=...): a constructor argument,
\* 24 by default; shortened like stability_lock_hours.
evolution_interval_hours == 2
MaxTrades == 5         \* simulated trade pairs
\* ShadowEngine(promotion_threshold_iterations=..., sharpe_ratio_threshold=...):
\* constructor arguments; the iteration threshold is shortened from 100.
promotion_threshold_iterations == 3
MaxCalls == 5          \* analyze_psychology calls
MaxSignalAge == 2      \* 5 s periods followed after the shutdown signal
MaxTicks == 2          \* trading ticks
MaxPublications == 4   \* analyses the reasoning loop publishes
MaxThreadCalls == 3    \* ShadowEngine calls begun by the threads
MaxReads == 4          \* reads of latest_analysis
MaxLoopErrors == 2     \* errors raised in loop bodies
MaxPredictions == 2    \* predictions recorded in the ledger
MaxLedgerTime == 12    \* the ledger's clock stops advancing here

(***************************************************************************)
(* Program constants                                                       *)
(***************************************************************************)
kill_switch_threshold_pct == 3    \* config.py, 0.03
initial_equity == 1000            \* config.py
kill_switch_window_hours == 1     \* guardrails.py, timedelta(hours=1)
performance_window_hours == 2     \* memory.py, timedelta(hours=2)
flash_crash_abs == 20000          \* abs(-0.20) in 1e-5
max_drawdown_threshold == 15000   \* 0.15 in 1e-5
MIN_SHARPE_RATIO == 120           \* backtester.py, 1.2 in hundredths
MAX_DRAWDOWN_THRESHOLD == 5       \* backtester.py, 0.05 in percent
whale_threshold_btc == 1000       \* main.py, NarrativePulse(whale_threshold_btc=1000.0)
spy_threshold_pct == -1           \* oracle.py, spy_threshold * 100
SENTIMENT_MIN == 50               \* shared_state.py, clamp lower bound 0.5
SENTIMENT_MAX == 150              \* shared_state.py, clamp upper bound 1.5
HIGH_RISK_REDUCTION == 5          \* architect.py, 0.5 in tenths
WHALE_REDUCTION == 7              \* architect.py, 0.7 in tenths
sharpe_ratio_threshold == 120     \* 1.2, in hundredths
NoTime == -1                      \* None for an Optional[datetime]

(***************************************************************************)
(* Source text of a decision module.  A module file is the shipped         *)
(* original, a text produced by _generate_evolved_code (the fixed template *)
(* with the regime string and the generation time interpolated into its    *)
(* header docstring), or the remains of a write that failed part-way.      *)
(***************************************************************************)
Original == [kind |-> "original", regime |-> "", stamp |-> NoTime]
Truncated == [kind |-> "truncated", regime |-> "", stamp |-> NoTime]
Absent == [kind |-> "absent", regime |-> "", stamp |-> NoTime]
NoCode == [kind |-> "none", regime |-> "", stamp |-> NoTime]

\* Regime strings an analysis may carry.  The first stands for what the
\* ReasoningLoop publishes (the regime names hold none of the screen's
\* keywords); the others are free text a caller may pass.
LoopRegimes == {"RANGE_QUIET"}
Regimes == LoopRegimes \cup {"stop_loss", "QUOTES"}

\* The screen's vocabulary that a (lower-cased) regime string contains.
RegimeWords(r) ==
    CASE r = "stop_loss" -> {"stop_loss"}
      [] r = "kill_switch" -> {"kill_switch"}
      [] r = "kill_switch position_size" -> {"kill_switch", "position_size"}
      [] OTHER -> {}

\* A regime string holding a triple quote ends the header docstring early.
RegimeBreaksSyntax(r) == r = "QUOTES"

\* The template of _generate_evolved_code contains none of the screen's
\* keywords; it defines three functions.
TemplateWords == {}
TemplateFunctions == {"calculate_rsi", "calculate_indicators", "generate_signal"}

_generate_evolved_code(regime, t) == [kind |-> "generated", regime |-> regime, stamp |-> t]

Words(code) == IF code.kind = "generated" THEN TemplateWords \cup RegimeWords(code.regime) ELSE {}

\* keyword in code_lower: substring test, so "drawdown" is found inside
\* the longer keywords that contain it.
Superstrings(kw) == IF kw = "drawdown" THEN {"drawdown", "drawdown_limit", "max_drawdown"} ELSE {kw}
Contains(words, kw) == Superstrings(kw) \cap words # {}
ContainsAny(words, kws) == \E kw \in kws : Contains(words, kw)

(***************************************************************************)
(* AdversarialAlpha.red_team_strategy                                      *)
(***************************************************************************)
stop_loss_keywords == {"stop_loss", "stop-loss", "stoploss", "max_loss", "loss_threshold", "drawdown_limit", "kill_switch"}
position_keywords == {"position_size", "max_position", "size_limit", "position_limit", "max_size", "leverage_limit"}
drawdown_keywords == {"drawdown", "max_dd", "max_drawdown", "cumulative_loss", "peak_to_trough", "underwater"}

_check_stop_loss(words) == ContainsAny(words, stop_loss_keywords)
_check_position_limits(words) == ContainsAny(words, position_keywords)
_check_drawdown_monitoring(words) == ContainsAny(words, drawdown_keywords)

estimated_drawdown(words) ==
    LET d0 == flash_crash_abs
        d1 == IF Contains(words, "stop_loss") THEN (d0 * 4) \div 10 ELSE d0
        d2 == IF ContainsAny(words, {"position_size", "max_position", "size_limit"}) THEN (d1 * 7) \div 10 ELSE d1
        d3 == IF ContainsAny(words, {"risk", "drawdown", "volatility"}) THEN (d2 * 8) \div 10 ELSE d2
    IN  d3

_simulate_flash_crash(words) == estimated_drawdown(words) <= max_drawdown_threshold

tests_failed(words) ==
    (IF _check_stop_loss(words) THEN {} ELSE {"stop_loss_missing"})
    \cup (IF _simulate_flash_crash(words) THEN {} ELSE {"flash_crash_failure"})
    \cup (IF _check_position_limits(words) THEN {} ELSE {"position_limits_missing"})
    \cup (IF _check_drawdown_monitoring(words) THEN {} ELSE {"drawdown_monitoring_missing"})

\* stop_loss_required keeps its default True in Architect's screen
red_team_strategy(code) ==
    {"stop_loss_missing", "flash_crash_failure"} \cap tests_failed(Words(code)) = {}

(***************************************************************************)
(* Guardrails.audit_code                                                   *)
(***************************************************************************)
validate_code_syntax(code) == code.kind = "generated" /\ ~RegimeBreaksSyntax(code.regime)
validate_code_logic(code) ==
    /\ validate_code_syntax(code)
    /\ {"calculate_indicators", "generate_signal"} \subseteq TemplateFunctions
audit_code(code) == validate_code_syntax(code) /\ validate_code_logic(code)

(***************************************************************************)
(* State                                                                   *)
(***************************************************************************)
VARIABLES
    now,                    \* wall clock, datetime.now(), in hours
    \* Guardrails
    current_equity,
    equity_history,         \* sequence of [timestamp, equity]
    kill_switch_triggered,
    last_evolution_time,    \* NoTime or the time of mark_evolution
    \* files of the Architect
    module_file,            \* content of active_logic.py
    backup_file,            \* content of active_logic.py.backup
    \* EvolutionMemory.data
    evolutions,             \* sequence of evolution records
    blacklisted_parameters, \* sequence of blacklist entries
    history_file,           \* content of data/evolution_history.json
    \* Architect
    evolution_history,      \* Architect.evolution_history
    \* observation of the latest evolve call
    ret,                    \* "none", "true", "false" or "raised"
    call,                   \* what held when the call was made
    success_times           \* times at which evolve returned true

archVars == <<current_equity, equity_history, kill_switch_triggered, last_evolution_time,
              module_file, backup_file, evolutions, blacklisted_parameters, history_file,
              evolution_history, ret, call, success_times>>

(***************************************************************************)
(* Analyses handed to Architect.evolve                                     *)
(***************************************************************************)
Reasons == {"r1"}
Suggestions == {"s1"}
NoneValue == "None"

\* shape "ok": a dict with an evolution_suggestion dict holding reason and suggestion
WellFormedAnalyses ==
    {[shape |-> "ok", reason |-> r, suggestion |-> s, regime |-> g] :
        r \in Reasons, s \in Suggestions, g \in Regimes}
\* "none": None or {}; "nosugg": evolution_suggestion is None;
\* "strsugg": evolution_suggestion is a non-empty string; "nondict": the
\* analysis is a non-empty list; "noreason": the suggestion dict has no
\* 'reason' key.
OtherAnalyses ==
    {[shape |-> sh, reason |-> NoneValue, suggestion |-> NoneValue, regime |-> "RANGE_QUIET"] :
        sh \in {"none", "nosugg", "strsugg", "nondict"}}
    \cup {[shape |-> "noreason", reason |-> NoneValue, suggestion |-> s, regime |-> g] :
        s \in Suggestions, g \in {"RANGE_QUIET", "stop_loss"}}
Analyses == WellFormedAnalyses \cup OtherAnalyses
\* what ReasoningLoop.analyze_ohlcv publishes as latest_analysis
LoopAnalyses ==
    {a \in WellFormedAnalyses : a.regime \in LoopRegimes}
    \cup {a \in OtherAnalyses : a.shape \in {"none", "nosugg"}}

Parameters(analysis) ==
    [reason |-> analysis.reason, suggestion |-> analysis.suggestion, regime |-> analysis.regime]

(***************************************************************************)
(* Guardrails                                                              *)
(***************************************************************************)
\* 970 is 3% below 1000: a drop of exactly the threshold
Equities == {970, 1000}

recent_history_unwindowed(history, t) == history
recent_history(history, t) ==
    SelectSeq(history, LAMBDA h : h.timestamp >= t - kill_switch_window_hours)

\* the value of kill_switch_triggered after _check_kill_switch
\* (equities are positive, so the division keeps the inequality's direction)
_check_kill_switch_unlatched(triggered, history, cur, t) ==
    LET recent == recent_history(history, t)
    IN  /\ recent # <<>>
        /\ (cur - recent[1].equity) * 100 <= -(kill_switch_threshold_pct * recent[1].equity)
_check_kill_switch(triggered, history, cur, t) ==
    IF triggered THEN TRUE
    ELSE LET recent == recent_history(history, t)
         IN  /\ recent # <<>>
             /\ (cur - recent[1].equity) * 100 <= -(kill_switch_threshold_pct * recent[1].equity)

is_kill_switch_active_never == FALSE
is_kill_switch_active == kill_switch_triggered

can_evolve_off_by_one ==
    \/ last_evolution_time = NoTime
    \/ ~(now - last_evolution_time < stability_lock_hours - 1)
can_evolve ==
    \/ last_evolution_time = NoTime
    \/ ~(now - last_evolution_time < stability_lock_hours)

(***************************************************************************)
(* EvolutionMemory                                                         *)
(***************************************************************************)
_parameters_match_by_identity(blacklisted, proposed) == FALSE
_parameters_match(blacklisted, proposed) == blacklisted = proposed

is_blacklisted(parameters) ==
    \E i \in 1..Len(blacklisted_parameters) :
        _parameters_match(blacklisted_parameters[i].parameters, parameters)

\* The history file: absent, a complete JSON document, or what open(..., 'w')
\* and an unfinished json.dump leave behind.
AbsentFile == [kind |-> "absent", evolutions |-> <<>>, blacklisted_parameters |-> <<>>]
TornFile == [kind |-> "torn", evolutions |-> <<>>, blacklisted_parameters |-> <<>>]
HistoryDocument(evols, blacklist) ==
    [kind |-> "json", evolutions |-> evols, blacklisted_parameters |-> blacklist]

\* what _load_history returns for a file: its document, or the default
\* structure when the file is absent or json.load raises
_load_history(file) ==
    IF file.kind = "json"
    THEN [evolutions |-> file.evolutions, blacklisted_parameters |-> file.blacklisted_parameters]
    ELSE [evolutions |-> <<>>, blacklisted_parameters |-> <<>>]

evolution_record(parameters, reason, suggestion, equity, t) ==
    [parameters |-> parameters, reason |-> reason, suggestion |-> suggestion,
     initial_equity |-> equity, start_time |-> t,
     evaluated |-> FALSE, final_pnl |-> 0, current_pnl |-> 0, last_update |-> NoTime]

blacklist_entry(parameters, pnl, evolution_index, t) ==
    [parameters |-> parameters, pnl |-> pnl, timestamp |-> t, evolution_index |-> evolution_index]

(***************************************************************************)
(* VectorizedBacktester.validate_for_deployment on the file at the module  *)
(* path; the metrics come from the market data the backtest runs on.       *)
(***************************************************************************)
SharpeValues == {100, 130}
DrawdownValues == {3, 8}

load_strategy_module(file) == file.kind \in {"original", "generated"}

validate_for_deployment(file, sharpe, drawdown) ==
    /\ load_strategy_module(file)
    /\ sharpe >= MIN_SHARPE_RATIO
    /\ drawdown <= MAX_DRAWDOWN_THRESHOLD

(***************************************************************************)
(* Architect.propose_evolution.  screen_fault: the adversary cannot be     *)
(* imported or raises; read_fault: the module file cannot be read.         *)
(***************************************************************************)
Proposal(raised, code, screen) == [raised |-> raised, code |-> code, screen |-> screen]

propose_evolution_deploying_rejected(analysis, screen_fault, read_fault) ==
    IF analysis.shape \in {"nondict", "strsugg"} THEN Proposal(TRUE, NoCode, "skipped")
    ELSE IF analysis.shape \in {"none", "nosugg"} THEN Proposal(FALSE, NoCode, "skipped")
    ELSE IF is_blacklisted(Parameters(analysis)) THEN Proposal(FALSE, NoCode, "skipped")
    ELSE IF read_fault THEN Proposal(FALSE, NoCode, "skipped")
    ELSE LET evolved_code == _generate_evolved_code(analysis.regime, now)
         IN  IF screen_fault THEN Proposal(FALSE, evolved_code, "fault")
             ELSE IF ~red_team_strategy(evolved_code) THEN Proposal(FALSE, evolved_code, "rejected")
             ELSE Proposal(FALSE, evolved_code, "approved")

propose_evolution(analysis, screen_fault, read_fault) ==
    \* analysis.get on a list, suggestion.get on a string: AttributeError
    IF analysis.shape \in {"nondict", "strsugg"} THEN Proposal(TRUE, NoCode, "skipped")
    ELSE IF analysis.shape \in {"none", "nosugg"} THEN Proposal(FALSE, NoCode, "skipped")
    ELSE IF is_blacklisted(Parameters(analysis)) THEN Proposal(FALSE, NoCode, "skipped")
    ELSE IF read_fault THEN Proposal(FALSE, NoCode, "skipped")
    ELSE LET evolved_code == _generate_evolved_code(analysis.regime, now)
         IN  \* except Exception: "Continue with evolution even if adversary check fails"
             IF screen_fault THEN Proposal(FALSE, evolved_code, "fault")
             ELSE IF ~red_team_strategy(evolved_code) THEN Proposal(FALSE, NoCode, "rejected")
             ELSE Proposal(FALSE, evolved_code, "approved")

(***************************************************************************)
(* Architect.evolve                                                        *)
(***************************************************************************)
IOFaults == {"ok", "read_fail", "backup_open_fail", "backup_write_fail", "write_open_fail", "write_partial"}
RestoreFaults == {"ok", "open_fail", "write_fail"}
\* the faults of writing the candidate, which strike once the backup is taken
WriteFaults == {"write_open_fail", "write_partial"}

\* the module file after the except handler tried to copy the backup back
restore_backup_leaving_module(backup, module, restore) == module
restore_backup(backup, module, restore) ==
    IF backup = Absent THEN module
    ELSE CASE restore = "ok" -> backup
           [] restore = "open_fail" -> module
           [] OTHER -> Truncated

Outcome(r, module, backup, marked, recorded, screen) ==
    [ret |-> r, module |-> module, backup |-> backup, marked |-> marked,
     recorded |-> recorded, screen |-> screen]

write_evolved_logic(analysis, new_code, screen, io, restore) ==
    CASE io = "backup_open_fail" ->
            Outcome("false", restore_backup(backup_file, module_file, restore), backup_file, FALSE, FALSE, screen)
      [] io = "backup_write_fail" ->
            Outcome("false", restore_backup(Truncated, module_file, restore), Truncated, FALSE, FALSE, screen)
      [] io = "write_open_fail" ->
            Outcome("false", restore_backup(module_file, module_file, restore), module_file, FALSE, FALSE, screen)
      [] io = "write_partial" ->
            Outcome("false", restore_backup(module_file, Truncated, restore), module_file, FALSE, FALSE, screen)
      [] OTHER ->
            \* suggestion['reason'] raises KeyError after the write and mark_evolution
            IF analysis.shape = "noreason"
            THEN Outcome("false", restore_backup(module_file, new_code, restore), module_file, TRUE, FALSE, screen)
            ELSE Outcome("true", new_code, module_file, TRUE, TRUE, screen)

evolve(analysis, screen_fault, io, restore) ==
    IF ~can_evolve THEN Outcome("false", module_file, backup_file, FALSE, FALSE, "skipped")
    ELSE IF is_kill_switch_active THEN Outcome("false", module_file, backup_file, FALSE, FALSE, "skipped")
    ELSE LET p == propose_evolution(analysis, screen_fault, io = "read_fail")
         IN  IF p.raised THEN Outcome("raised", module_file, backup_file, FALSE, FALSE, p.screen)
             ELSE IF p.code = NoCode THEN Outcome("false", module_file, backup_file, FALSE, FALSE, p.screen)
             ELSE IF ~audit_code(p.code) THEN Outcome("false", module_file, backup_file, FALSE, FALSE, p.screen)
             ELSE write_evolved_logic(analysis, p.code, p.screen, io, restore)

NoGate == [subject |-> NoCode, can_deploy |-> FALSE]

\* structural equality with the parameters of some blacklist entry
InBlacklist(parameters) ==
    \E i \in 1..Len(blacklisted_parameters) : blacklisted_parameters[i].parameters = parameters

\* the effect of one evolve call on the state
\* (gate: the backtest gate evaluation the caller made before the call)
ApplyEvolve(analysis, screen_fault, io, restore, gate) ==
    LET o == evolve(analysis, screen_fault, io, restore)
    IN  /\ module_file' = o.module
        /\ backup_file' = o.backup
        /\ last_evolution_time' = IF o.marked THEN now ELSE last_evolution_time
        /\ evolutions' =
              IF o.recorded
              THEN Append(evolutions, evolution_record(Parameters(analysis), analysis.reason,
                                                       analysis.suggestion, current_equity, now))
              ELSE evolutions
        /\ evolution_history' =
              IF o.recorded
              THEN Append(evolution_history, [timestamp |-> now, reason |-> analysis.reason,
                                              suggestion |-> analysis.suggestion])
              ELSE evolution_history
        /\ history_file' =
              IF o.recorded THEN HistoryDocument(evolutions', blacklisted_parameters)
              ELSE history_file
        /\ ret' = o.ret
        /\ call' = [kill |-> kill_switch_triggered,
                    screen |-> o.screen,
                    blacklisted |-> analysis.shape \in {"ok", "noreason"} /\ InBlacklist(Parameters(analysis)),
                    module_changed |-> o.module # module_file,
                    gated |-> gate.can_deploy /\ gate.subject = o.module,
                    write_failed |-> io \in WriteFaults,
                    restored |-> restore = "ok",
                    restore_failed_once |->
                        call.restore_failed_once \/ (io \in WriteFaults /\ restore # "ok")]
        /\ success_times' = IF o.ret = "true" THEN Append(success_times, now) ELSE success_times

\* A fault is drawn only for an operation the call reaches: none on a call
\* that returns before reading the module file, no write fault on a call
\* that returns before the write, no restore fault unless the except
\* handler runs.
FaultsReached(analysis, screen_fault, io, restore) ==
    LET returns_early ==
            \/ ~can_evolve
            \/ is_kill_switch_active
            \/ analysis.shape \notin {"ok", "noreason"}
            \/ is_blacklisted(Parameters(analysis))
        p == propose_evolution(analysis, screen_fault, io = "read_fail")
        writes_nothing == returns_early \/ p.code = NoCode \/ ~audit_code(p.code)
    IN  /\ returns_early => (~screen_fault /\ io = "ok")
        /\ io = "read_fail" => ~screen_fault
        /\ writes_nothing => (io \in {"ok", "read_fail"} /\ restore = "ok")
        /\ (io = "ok" /\ analysis.shape # "noreason") => restore = "ok"

\* a direct call, as demo.py makes it
Evolve(analysis, screen_fault, io, restore) ==
    /\ FaultsReached(analysis, screen_fault, io, restore)
    /\ ApplyEvolve(analysis, screen_fault, io, restore, NoGate)
    /\ UNCHANGED <<now, current_equity, equity_history, kill_switch_triggered,
                   blacklisted_parameters>>

\* one iteration of AetherEvo.evolution_check_loop that finds a suggestion
EvolutionCheck(analysis, sharpe, drawdown, screen_fault, io, restore) ==
    /\ analysis.shape = "ok"
    /\ LET can_deploy == validate_for_deployment(module_file, sharpe, drawdown)
       IN  IF can_deploy
           THEN /\ FaultsReached(analysis, screen_fault, io, restore)
                /\ ApplyEvolve(analysis, screen_fault, io, restore,
                               [subject |-> module_file, can_deploy |-> can_deploy])
           \* evolve is not called: none of its faults is reached
           ELSE /\ ~screen_fault /\ io = "ok" /\ restore = "ok"
                /\ UNCHANGED <<module_file, backup_file, last_evolution_time, evolutions,
                               history_file, evolution_history, ret, call, success_times>>
    /\ UNCHANGED <<now, current_equity, equity_history, kill_switch_triggered,
                   blacklisted_parameters>>

(***************************************************************************)
(* Guardrails.update_equity                                                *)
(***************************************************************************)
UpdateEquity(new_equity) ==
    /\ current_equity' = new_equity
    /\ equity_history' = Append(equity_history, [timestamp |-> now, equity |-> new_equity])
    /\ kill_switch_triggered' =
          _check_kill_switch(kill_switch_triggered, equity_history', new_equity, now)
    /\ UNCHANGED <<now, last_evolution_time, module_file, backup_file, evolutions,
                   blacklisted_parameters, history_file, evolution_history, ret, call,
                   success_times>>

(***************************************************************************)
(* EvolutionMemory.update_performance_window                               *)
(***************************************************************************)
PnLs == {-5, 5}

\* time_elapsed > timedelta(hours=2)
window_closed_inclusive(evolution, t) == t - evolution.start_time >= performance_window_hours
window_closed(evolution, t) == t - evolution.start_time > performance_window_hours

UpdateWindow(evolution_index, pnl) ==
    /\ evolution_index \in 1..Len(evolutions)
    /\ LET evolution == evolutions[evolution_index]
           closed == window_closed(evolution, now)
       IN  IF closed
           THEN /\ pnl < 0 => Len(blacklisted_parameters) < MaxBlacklist
                /\ blacklisted_parameters' =
                      IF pnl < 0
                      THEN Append(blacklisted_parameters,
                                  blacklist_entry(evolution.parameters, pnl, evolution_index, now))
                      ELSE blacklisted_parameters
                /\ evolutions' = [evolutions EXCEPT ![evolution_index] =
                                     [@ EXCEPT !.evaluated = TRUE, !.final_pnl = pnl]]
           ELSE /\ evolutions' = [evolutions EXCEPT ![evolution_index] =
                                     [@ EXCEPT !.current_pnl = pnl, !.last_update = now]]
                /\ UNCHANGED blacklisted_parameters
    /\ history_file' = HistoryDocument(evolutions', blacklisted_parameters')
    /\ UNCHANGED <<now, current_equity, equity_history, kill_switch_triggered,
                   last_evolution_time, module_file, backup_file, evolution_history,
                   ret, call, success_times>>

(***************************************************************************)
(* EvolutionMemory._save_history step by step, with the process stopping   *)
(* and a new EvolutionMemory being constructed on the same file.           *)
(***************************************************************************)
VARIABLES
    save_pc,                \* "idle", or "dump" between open(..., 'w') and the end of json.dump
    restarts                \* constructions of a new EvolutionMemory so far

saveVars == <<save_pc, restarts>>

\* record_evolution up to the open(self.history_file, 'w') of _save_history
RecordEvolutionOpen(analysis) ==
    /\ save_pc = "idle"
    /\ Len(evolutions) < MaxRecords
    /\ evolutions' = Append(evolutions,
                            evolution_record(Parameters(analysis), analysis.reason,
                                             analysis.suggestion, current_equity, now))
    /\ history_file' = TornFile
    /\ save_pc' = "dump"
    /\ UNCHANGED <<now, current_equity, equity_history, kill_switch_triggered,
                   last_evolution_time, module_file, backup_file, blacklisted_parameters,
                   evolution_history, ret, call, success_times, restarts>>

\* json.dump(self.data, f, indent=2) runs to its end
SaveDump ==
    /\ save_pc = "dump"
    /\ history_file' = HistoryDocument(evolutions, blacklisted_parameters)
    /\ save_pc' = "idle"
    /\ UNCHANGED <<now, current_equity, equity_history, kill_switch_triggered,
                   last_evolution_time, module_file, backup_file, evolutions,
                   blacklisted_parameters, evolution_history, ret, call, success_times,
                   restarts>>

\* the process stops, at any point, and EvolutionMemory.__init__ runs again
Restart ==
    /\ restarts < MaxRestarts
    /\ restarts' = restarts + 1
    /\ save_pc' = "idle"
    /\ evolutions' = _load_history(history_file).evolutions
    /\ blacklisted_parameters' = _load_history(history_file).blacklisted_parameters
    /\ UNCHANGED <<now, current_equity, equity_history, kill_switch_triggered,
                   last_evolution_time, module_file, backup_file, history_file,
                   evolution_history, ret, call, success_times>>

Tick ==
    /\ now < MaxTime
    /\ now' = now + 1
    /\ UNCHANGED archVars

(***************************************************************************)
(* SharedState and the threads that use it.  Every SharedState method      *)
(* holds the lock for its whole body, so each call is one step; a caller   *)
(* that makes several calls can be interleaved between them.               *)
(***************************************************************************)
VARIABLES
    risk_level,             \* SharedState._global_risk_level
    sentiment_multiplier,   \* SharedState._sentiment_multiplier, in hundredths
    whale_dump_risk,        \* SharedState._whale_dump_risk
    oracle_data,            \* SharedState._oracle_data
    np_whale_dump_risk,     \* NarrativePulse._whale_dump_risk
    np_pc,                  \* where check_whale_inflow stands
    np_local,               \* its locals: risk_active, snapshot, current_risk
    size_pc,                \* where get_adjusted_size stands
    size_local,             \* its locals: sentiment, risk, whale, result
    writes,                 \* calls made so far, per producer
    sizings,                \* get_adjusted_size calls made so far
    held,                   \* every (sentiment, risk, whale) SharedState has held
    narrative_demoted       \* a NarrativePulse write took risk_level from HIGH to NORMAL

sharedVars == <<risk_level, sentiment_multiplier, whale_dump_risk, oracle_data,
                np_whale_dump_risk, np_pc, np_local, size_pc, size_local,
                writes, sizings, held, narrative_demoted>>


NoPayload == [source |-> "none", whale_dump_risk |-> "absent"]

\* the clamp of set_sentiment_multiplier
clamp_unbounded(multiplier) == multiplier
clamp(multiplier) ==
    IF multiplier < SENTIMENT_MIN THEN SENTIMENT_MIN
    ELSE IF multiplier > SENTIMENT_MAX THEN SENTIMENT_MAX
    ELSE multiplier

\* position size in 1e-4: base x sentiment/100 x risk/10 x whale/10
AdjustedSize_ignoring_whale(base_size, sentiment, risk, whale) ==
    base_size * sentiment * (IF risk = "HIGH" THEN HIGH_RISK_REDUCTION ELSE 10) * 10
AdjustedSize(base_size, sentiment, risk, whale) ==
    base_size * sentiment
        * (IF risk = "HIGH" THEN HIGH_RISK_REDUCTION ELSE 10)
        * (IF whale THEN WHALE_REDUCTION ELSE 10)

BaseSize == 100
SpyChanges == {-2, 0}
Multipliers == {30, 100, 200}
Inflows == {500, 1500}

\* TradFiOracle.update_global_risk: one set_global_risk_level call
OracleUpdate(spy_change_pct, fetch_error) ==
    /\ writes.oracle < MaxWrites
    /\ writes' = [writes EXCEPT !.oracle = @ + 1]
    /\ risk_level' = IF ~fetch_error /\ spy_change_pct < spy_threshold_pct THEN "HIGH" ELSE "NORMAL"
    /\ oracle_data' = [source |-> IF fetch_error THEN "error_fallback" ELSE "market",
                       whale_dump_risk |-> "absent"]
    /\ held' = held \cup {<<sentiment_multiplier, risk_level', whale_dump_risk>>}
    /\ UNCHANGED <<sentiment_multiplier, whale_dump_risk, np_whale_dump_risk, np_pc, np_local,
                   size_pc, size_local, sizings, narrative_demoted>>

\* SentimentAgent.update_sentiment: one set_sentiment_multiplier call
SentimentUpdate(multiplier) ==
    /\ writes.sentiment < MaxWrites
    /\ writes' = [writes EXCEPT !.sentiment = @ + 1]
    /\ sentiment_multiplier' = clamp(multiplier)
    /\ held' = held \cup {<<sentiment_multiplier', risk_level, whale_dump_risk>>}
    /\ UNCHANGED <<risk_level, whale_dump_risk, oracle_data, np_whale_dump_risk, np_pc, np_local,
                   size_pc, size_local, sizings, narrative_demoted>>

(***************************************************************************)
(* NarrativePulse.check_whale_inflow and _update_shared_state_whale_risk   *)
(***************************************************************************)
NoLocal == [risk_active |-> FALSE, snapshot |-> NoPayload, current_risk |-> "NORMAL"]

\* entry up to and including set_whale_dump_risk
NarrativeCheck(exchange_inflow_btc) ==
    /\ np_pc = "idle"
    /\ writes.narrative < MaxWrites
    /\ writes' = [writes EXCEPT !.narrative = @ + 1]
    /\ LET is_whale_event == exchange_inflow_btc > whale_threshold_btc
       IN  IF is_whale_event
           THEN /\ np_whale_dump_risk' = TRUE
                /\ whale_dump_risk' = TRUE
                /\ np_local' = [NoLocal EXCEPT !.risk_active = TRUE]
                /\ np_pc' = "get_all_state"
           ELSE IF np_whale_dump_risk
           THEN /\ np_whale_dump_risk' = FALSE
                /\ whale_dump_risk' = FALSE
                /\ np_local' = [NoLocal EXCEPT !.risk_active = FALSE]
                /\ np_pc' = "get_all_state"
           ELSE UNCHANGED <<np_whale_dump_risk, whale_dump_risk, np_local, np_pc>>
    /\ held' = held \cup {<<sentiment_multiplier, risk_level, whale_dump_risk'>>}
    /\ UNCHANGED <<risk_level, sentiment_multiplier, oracle_data, size_pc, size_local,
                   sizings, narrative_demoted>>

\* current_state = self.shared_state.get_all_state()
NarrativeSnapshot ==
    /\ np_pc = "get_all_state"
    /\ np_local' = [np_local EXCEPT !.snapshot = oracle_data]
    /\ np_pc' = "get_global_risk_level"
    /\ UNCHANGED <<risk_level, sentiment_multiplier, whale_dump_risk, oracle_data,
                   np_whale_dump_risk, size_pc, size_local, writes, sizings, held,
                   narrative_demoted>>

\* current_risk = self.shared_state.get_global_risk_level()
NarrativeReadRisk ==
    /\ np_pc = "get_global_risk_level"
    /\ np_local' = [np_local EXCEPT !.current_risk = risk_level]
    /\ np_pc' = "set_global_risk_level"
    /\ UNCHANGED <<risk_level, sentiment_multiplier, whale_dump_risk, oracle_data,
                   np_whale_dump_risk, size_pc, size_local, writes, sizings, held,
                   narrative_demoted>>

\* the level _update_shared_state_whale_risk passes to set_global_risk_level
narrative_level(risk_active, current_risk) ==
    IF risk_active /\ current_risk = "NORMAL" THEN "HIGH" ELSE current_risk

NarrativeWriteRisk ==
    /\ np_pc = "set_global_risk_level"
    /\ risk_level' = narrative_level(np_local.risk_active, np_local.current_risk)
    /\ oracle_data' = [np_local.snapshot EXCEPT
                          !.whale_dump_risk = IF np_local.risk_active THEN "true" ELSE "false"]
    /\ narrative_demoted' = (narrative_demoted \/ (risk_level = "HIGH" /\ risk_level' = "NORMAL"))
    /\ held' = held \cup {<<sentiment_multiplier, risk_level', whale_dump_risk>>}
    /\ np_pc' = "idle"
    /\ np_local' = NoLocal
    /\ UNCHANGED <<sentiment_multiplier, whale_dump_risk, np_whale_dump_risk,
                   size_pc, size_local, writes, sizings>>

(***************************************************************************)
(* Architect.get_adjusted_size                                             *)
(***************************************************************************)
NoSize == [sentiment |-> 0, risk |-> "NORMAL", whale |-> FALSE, result |-> 0]

\* sentiment_multiplier = self.shared_state.get_sentiment_multiplier()
SizeGetSentiment ==
    /\ size_pc \in {"idle", "done"}
    /\ sizings < MaxSizings
    /\ sizings' = sizings + 1
    /\ size_local' = [NoSize EXCEPT !.sentiment = sentiment_multiplier]
    /\ size_pc' = "get_global_risk_level"
    /\ UNCHANGED <<risk_level, sentiment_multiplier, whale_dump_risk, oracle_data,
                   np_whale_dump_risk, np_pc, np_local, writes, held, narrative_demoted>>

\* global_risk = self.shared_state.get_global_risk_level()
SizeGetRisk ==
    /\ size_pc = "get_global_risk_level"
    /\ size_local' = [size_local EXCEPT !.risk = risk_level]
    /\ size_pc' = "get_whale_dump_risk"
    /\ UNCHANGED <<risk_level, sentiment_multiplier, whale_dump_risk, oracle_data,
                   np_whale_dump_risk, np_pc, np_local, writes, sizings, held,
                   narrative_demoted>>

\* if self.shared_state.get_whale_dump_risk(): ...; return adjusted_size
SizeGetWhale ==
    /\ size_pc = "get_whale_dump_risk"
    /\ size_local' = [size_local EXCEPT
                         !.whale = whale_dump_risk,
                         !.result = AdjustedSize(BaseSize, size_local.sentiment,
                                                 size_local.risk, whale_dump_risk)]
    /\ size_pc' = "done"
    /\ UNCHANGED <<risk_level, sentiment_multiplier, whale_dump_risk, oracle_data,
                   np_whale_dump_risk, np_pc, np_local, writes, sizings, held,
                   narrative_demoted>>

(***************************************************************************)
(* IntelligenceLedger and ReconciliationAuditor.  A column that is NULL is *)
(* the empty sequence, a column holding v is <<v>>.  Prices are whole      *)
(* units, scores are in thousandths, confidence is in hundredths.          *)
(***************************************************************************)
VARIABLES
    predictions,            \* the predictions table, in id order
    audit_log               \* (id, timeframe) pairs written by the latest audit call

ledgerVars == <<predictions, audit_log>>

Timeframes == <<"1h", "4h", "12h">>
audit_intervals == <<1, 4, 12>>
QUERY_LIMIT == 100

Signals == {"BUY", "SELL"}
Outcomes == {"Bull Trap"}
Confidences == {80}
PredictionPrices == {100}
AuditPrices == {80, 125}

NullColumns == [tf \in {"1h", "4h", "12h"} |-> <<>>]

Min(a, b) == IF a < b THEN a ELSE b
Max(a, b) == IF a > b THEN a ELSE b
Reverse(seq) == [i \in 1..Len(seq) |-> seq[Len(seq) + 1 - i]]

\* INSERT INTO predictions: the score and actual-price columns start NULL
record_prediction(rows, signal, predicted_outcome, confidence, price, t) ==
    Append(rows, [id |-> Len(rows) + 1, timestamp |-> t, signal |-> signal,
                  predicted_outcome |-> predicted_outcome, confidence |-> confidence,
                  price_at_prediction |-> price, actual_price |-> NullColumns,
                  success_score |-> NullColumns, audited |-> FALSE])

\* SELECT ... WHERE timestamp <= cutoff AND score IS NULL ORDER BY timestamp DESC LIMIT 100
get_unaudited_predictions_whatever_the_score(rows, timeframe, min_age_hours, t) ==
    LET found == SelectSeq(Reverse(rows), LAMBDA row : row.timestamp <= t - min_age_hours)
    IN  SubSeq(found, 1, Min(Len(found), QUERY_LIMIT))
get_unaudited_predictions_per_missing_score(rows, timeframe, min_age_hours, t) ==
    LET old == SelectSeq(Reverse(rows),
                   LAMBDA row : row.timestamp <= t - min_age_hours
                                /\ row.success_score[timeframe] = <<>>)
    IN  old \o SelectSeq(old, LAMBDA row : \E tf \in {"1h", "4h", "12h"} :
                                  tf # timeframe /\ row.success_score[tf] = <<>>)
get_unaudited_predictions(rows, timeframe, min_age_hours, t) ==
    LET found == SelectSeq(Reverse(rows),
                     LAMBDA row : row.timestamp <= t - min_age_hours
                                  /\ row.success_score[timeframe] = <<>>)
    IN  SubSeq(found, 1, Min(Len(found), QUERY_LIMIT))

update_actual_price(rows, prediction_id, actual_price, timeframe) ==
    [i \in 1..Len(rows) |->
        IF rows[i].id = prediction_id
        THEN [rows[i] EXCEPT !.actual_price[timeframe] = <<actual_price>>]
        ELSE rows[i]]

update_success_score(rows, prediction_id, timeframe, score) ==
    [i \in 1..Len(rows) |->
        IF rows[i].id = prediction_id
        THEN [rows[i] EXCEPT !.success_score[timeframe] = <<score>>]
        ELSE rows[i]]

mark_audited_without_effect(rows, prediction_id) == rows
mark_audited(rows, prediction_id) ==
    [i \in 1..Len(rows) |->
        IF rows[i].id = prediction_id THEN [rows[i] EXCEPT !.audited = TRUE] ELSE rows[i]]

\* score in thousandths: the signal's direction against the price change
\* (percent / 5, capped at +-1), raised for a confirmed pattern, times confidence
_calculate_success_score(prediction, actual_price) ==
    LET p0 == prediction.price_at_prediction
        pct == ((actual_price - p0) * 100) \div p0
        outcome == prediction.predicted_outcome
        by_signal ==
            CASE prediction.signal = "BUY" ->
                    IF pct > 0 THEN Min(pct * 200, 1000) ELSE Max(pct * 200, -1000)
              [] prediction.signal = "SELL" ->
                    IF pct < 0 THEN Min(-pct * 200, 1000) ELSE Max(-pct * 200, -1000)
              [] OTHER -> 0
        by_outcome ==
            IF outcome = "Bull Trap"
            THEN IF (prediction.signal = "SELL" /\ pct < -1) \/ (prediction.signal = "BUY" /\ pct > 1)
                 THEN Max(by_signal, 800) ELSE by_signal
            ELSE IF outcome = "Mean Reversion"
            THEN IF (prediction.signal = "BUY" /\ pct > 0) \/ (prediction.signal = "SELL" /\ pct < 0)
                 THEN Max(by_signal, 700) ELSE by_signal
            ELSE by_signal
    IN  (by_outcome * prediction.confidence) \div 100

_is_fully_audited_any_score(rows, prediction_id) ==
    \E i \in 1..Len(rows) :
        /\ rows[i].id = prediction_id
        /\ \E tf \in {"1h", "4h", "12h"} : rows[i].success_score[tf] # <<>>
_is_fully_audited(rows, prediction_id) ==
    \E i \in 1..Len(rows) :
        /\ rows[i].id = prediction_id
        /\ \A tf \in {"1h", "4h", "12h"} : rows[i].success_score[tf] # <<>>

\* the body of the for loop of _audit_timeframe: the table after the pass for pred
audit_pass(rows, pred, timeframe, current_price) ==
    LET priced == update_actual_price(rows, pred.id, current_price, timeframe)
        score == _calculate_success_score(pred, current_price)
        scored == update_success_score(priced, pred.id, timeframe, score)
    IN  IF _is_fully_audited(scored, pred.id)
        THEN mark_audited(scored, pred.id) ELSE scored

\* the for loop of _audit_timeframe over preds[k..]. A pass reads and writes
\* only the rows WHERE id = pred.id, and the ids of a table differ: the table
\* after the loop holds each selected row as the pass over that row leaves it.
audit_each(rows, log, preds, k, timeframe, current_price) ==
    IF k > Len(preds) THEN [rows |-> rows, log |-> log]
    ELSE [rows |-> [i \in 1..Len(rows) |->
                      IF rows[i] \in {preds[j] : j \in k..Len(preds)}
                      THEN audit_pass(<<rows[i]>>, rows[i], timeframe, current_price)[1]
                      ELSE rows[i]],
          log |-> log \o [j \in 1..(Len(preds) + 1 - k) |->
                             <<preds[k + j - 1].id, timeframe>>]]

\* the query runs once, before the loop, and the loop walks the list it returned
_audit_timeframe(rows, log, timeframe, hours, current_price, t) ==
    CHOOSE done \in {audit_each(rows, log, predictions_found, 1, timeframe, current_price) :
                        predictions_found \in {get_unaudited_predictions(rows, timeframe, hours, t)}} :
        TRUE

\* the for loop of run_audit_cycle over audit_intervals[k..]
RECURSIVE audit_intervals_from(_, _, _, _, _)
audit_intervals_from(rows, log, k, current_price, t) ==
    IF k > Len(audit_intervals) THEN [rows |-> rows, log |-> log]
    ELSE LET done == _audit_timeframe(rows, log, Timeframes[k], audit_intervals[k],
                                      current_price, t)
         IN  audit_intervals_from(done.rows, done.log, k + 1, current_price, t)

NoPrice == 0

\* price_fetcher is None here: without a current_price the cycle is skipped
run_audit_cycle(rows, current_price, t) ==
    IF current_price = NoPrice THEN [rows |-> rows, log |-> <<>>]
    ELSE audit_intervals_from(rows, <<>>, 1, current_price, t)

RecordPrediction(signal, predicted_outcome, confidence, price) ==
    /\ Len(predictions) < MaxPredictions
    /\ predictions' = record_prediction(predictions, signal, predicted_outcome,
                                        confidence, price, now)
    /\ UNCHANGED <<now, audit_log>>

\* one _audit_timeframe call, as the behavioral loop of main.py makes it
AuditTimeframe(k, current_price) ==
    /\ \E done \in {_audit_timeframe(predictions, <<>>, Timeframes[k], audit_intervals[k],
                                      current_price, now)} :
           /\ predictions' = done.rows
           /\ audit_log' = done.log
    /\ UNCHANGED now

RunAuditCycle(current_price) ==
    /\ LET done == run_audit_cycle(predictions, current_price, now)
       IN  /\ predictions' = done.rows
           /\ audit_log' = done.log
    /\ UNCHANGED now

\* A ledger file left by earlier runs: one row more than a query returns,
\* one recorded per hour, the newest 12 hours before this process started.
BacklogRows == QUERY_LIMIT + 1
Backlog(n) ==
    [i \in 1..n |->
        LET row == record_prediction(<<>>, "SELL", "Bull Trap", 80, 100, 0 - (12 + n - i))[1]
        IN  [row EXCEPT !.id = i]]

\* IntelligenceLedger.__init__ over that file: CREATE TABLE IF NOT EXISTS
\* keeps the rows
InitBacklogLedger ==
    /\ predictions = Backlog(BacklogRows)
    /\ audit_log = <<>>

\* every row has its three scores and the audited mark
FullyAudited(rows) ==
    \A i \in 1..Len(rows) :
        /\ rows[i].audited
        /\ \A tf \in {"1h", "4h", "12h"} : rows[i].success_score[tf] # <<>>

\* the clock of the ledger advances to the next hour at which some
\* timeframe of a prediction made at an earlier stop falls due
ElapseHours == {1, 3, 8}
Elapse(hours) ==
    /\ now + hours <= MaxLedgerTime
    /\ now + hours \in {1, 4, 12}
    /\ now' = now + hours
    /\ UNCHANGED ledgerVars

(***************************************************************************)
(* EvolutionaryMutator.  A prompt is the set of the guard's phrases that   *)
(* occur in its text.                                                      *)
(***************************************************************************)
VARIABLES
    current_version,        \* EvolutionaryMutator.current_version
    prompt_files,           \* version N |-> content of adversary_v{N}.txt, for the files that exist
    archive_files,          \* (version, time) of the copies in the archive directory
    mut_last_evolution_time,\* EvolutionaryMutator.last_evolution_time
    mut_ret,                \* what the latest evolve_prompt call returned
    mut_guard               \* the Symmetry Guard's verdict in that call

mutatorVars == <<current_version, prompt_files, archive_files, mut_last_evolution_time,
                 mut_ret, mut_guard>>

NoPrompt == {"None"}
BASE_SYSTEM_PROMPT == {"stop", "loss", "reasoning", "explain", "step-by-step", "chain-of-thought"}

\* texts the LLM may answer with
CandidatePrompts ==
    { {"stop", "reasoning"},
      {"stop"},
      {"explain"},
      {"no stop", "explain"},
      {"risk", "step-by-step", "all in"} }

\* term in prompt_lower: a phrase is found inside every phrase that contains it
PhrasesWith(term) ==
    CASE term = "stop" -> {"stop", "no stop"}
      [] term = "risk" -> {"risk", "risk management", "ignore risk", "no risk management"}
      [] term = "loss" -> {"loss", "unlimited loss"}
      [] term = "risk management" -> {"risk management", "no risk management"}
      [] OTHER -> {term}
InPrompt(prompt, term) == PhrasesWith(term) \cap prompt # {}

_symmetry_guard(prompt) ==
    LET has_stop_loss == \E term \in {"stop", "risk", "loss", "risk management"} :
                             InPrompt(prompt, term)
        has_cot == \E term \in {"reasoning", "explain", "step-by-step", "chain-of-thought"} :
                       InPrompt(prompt, term)
        has_dangerous == \E pattern \in {"no stop", "ignore risk", "unlimited loss", "all in",
                                         "no risk management"} : InPrompt(prompt, pattern)
    IN  has_stop_loss /\ has_cot /\ ~has_dangerous

PromptFile(prompt) == [kind |-> "prompt", prompt |-> prompt]
PartialPromptFile == [kind |-> "partial", prompt |-> {}]

\* _save_prompt: a file that cannot be opened is not created, a write that
\* fails leaves a partial file
_save_prompt(files, prompt, version, fault) ==
    CASE fault = "save_open_fail" -> files
      [] fault = "save_partial" ->
            [v \in DOMAIN files \cup {version} |->
                IF v = version THEN PartialPromptFile ELSE files[v]]
      [] OTHER ->
            [v \in DOMAIN files \cup {version} |->
                IF v = version THEN PromptFile(prompt) ELSE files[v]]

_archive_old_prompt(archive, files, version, t) ==
    IF version \in DOMAIN files THEN archive \cup {<<version, t>>} ELSE archive

MutatorOutcome(r, version, files, archive, last, guard) ==
    [ret |-> r, version |-> version, files |-> files, archive |-> archive,
     last |-> last, guard |-> guard]

MutatorFaults == {"ok", "api_error", "archive_fail", "save_open_fail", "save_partial"}

evolve_prompt_installing_rejected(has_failed_predictions, force, response, fault) ==
    MutatorOutcome(response, current_version + 1,
                   _save_prompt(prompt_files, response, current_version + 1, fault),
                   archive_files, now,
                   IF _symmetry_guard(response) THEN "passed" ELSE "rejected")
evolve_prompt(has_failed_predictions, force, response, fault) ==
    LET unchanged(guard) ==
            MutatorOutcome(NoPrompt, current_version, prompt_files, archive_files,
                           mut_last_evolution_time, guard)
    IN  IF /\ ~force
           /\ mut_last_evolution_time # NoTime
           /\ now - mut_last_evolution_time < evolution_interval_hours
        THEN unchanged("skipped")
        ELSE IF ~has_failed_predictions THEN unchanged("skipped")
        \* _generate_evolved_prompt raises: API not available, or the request fails
        ELSE IF fault = "api_error" THEN unchanged("skipped")
        ELSE IF ~_symmetry_guard(response) THEN unchanged("rejected")
        ELSE IF fault = "archive_fail" THEN unchanged("passed")
        ELSE LET archived == _archive_old_prompt(archive_files, prompt_files, current_version, now)
                 saved == _save_prompt(prompt_files, response, current_version + 1, fault)
             IN  \* current_version is incremented before _save_prompt runs
                 IF fault \in {"save_open_fail", "save_partial"}
                 THEN MutatorOutcome(NoPrompt, current_version + 1, saved, archived,
                                     mut_last_evolution_time, "passed")
                 ELSE MutatorOutcome(response, current_version + 1, saved, archived, now, "passed")

EvolvePrompt(has_failed_predictions, force, response, fault) ==
    /\ current_version < MaxVersion
    /\ LET o == evolve_prompt(has_failed_predictions, force, response, fault)
       IN  /\ current_version' = o.version
           /\ prompt_files' = o.files
           /\ archive_files' = o.archive
           /\ mut_last_evolution_time' = o.last
           /\ mut_ret' = o.ret
           /\ mut_guard' = o.guard
    /\ UNCHANGED now

(***************************************************************************)
(* ShadowEngine.  Sharpe ratios are in hundredths.  A strategy keeps the   *)
(* sum and the length of its sharpe_history, whose quotient is avg_sharpe. *)
(***************************************************************************)
VARIABLES
    shadow_strategy,        \* ShadowEngine.shadow_strategy
    live_strategy,          \* ShadowEngine.live_strategy
    promotion_alerts,       \* len(ShadowEngine.promotion_alerts)
    promotion_alert         \* whether the latest simulate_trade_pair result carries an alert

shadowVars == <<shadow_strategy, live_strategy, promotion_alerts, promotion_alert>>

\* ShadowStrategy.__init__
ShadowStrategy == [trade_count |-> 0, sharpe_sum |-> 0, history_len |-> 0]

\* the Sharpe ratios the random price moves may produce
SharpeSamples == {0 - 400, 0, 400}

\* 0.0 until roi_history holds two returns
_calculate_sharpe_ratio(strategy, sample) ==
    IF strategy.history_len < 2 THEN 0 ELSE sample

record_trade(strategy, sharpe_ratio) ==
    [trade_count |-> strategy.trade_count + 1,
     sharpe_sum |-> strategy.sharpe_sum + sharpe_ratio,
     history_len |-> strategy.history_len + 1]

\* avg_sharpe of get_stats is sharpe_sum / history_len, 0.0 for an empty history;
\* the comparisons are made on the cross products
AvgGreater(a, b) ==
    IF a.history_len = 0 THEN b.history_len > 0 /\ 0 > b.sharpe_sum
    ELSE IF b.history_len = 0 THEN a.sharpe_sum > 0
    ELSE a.sharpe_sum * b.history_len > b.sharpe_sum * a.history_len
AvgAtLeast(a, threshold) ==
    IF a.history_len = 0 THEN 0 >= threshold
    ELSE a.sharpe_sum >= threshold * a.history_len

ShadowState(shadow, live, alerts, alert) ==
    [shadow |-> shadow, live |-> live, alerts |-> alerts, alert |-> alert]

_check_promotion_criteria_keeping_counters(shadow, live, alerts) ==
    IF /\ AvgGreater(shadow, live)
       /\ AvgAtLeast(shadow, sharpe_ratio_threshold)
       /\ shadow.trade_count >= promotion_threshold_iterations
    THEN ShadowState(shadow, live, alerts + 1, TRUE)
    ELSE ShadowState(shadow, live, alerts, FALSE)
_check_promotion_criteria(shadow, live, alerts) ==
    IF /\ AvgGreater(shadow, live)
       /\ AvgAtLeast(shadow, sharpe_ratio_threshold)
       /\ shadow.trade_count >= promotion_threshold_iterations
    THEN ShadowState([shadow EXCEPT !.trade_count = 0], [live EXCEPT !.trade_count = 0],
                     alerts + 1, TRUE)
    ELSE ShadowState(shadow, live, alerts, FALSE)

simulate_trade_pair(live_sample, shadow_sample) ==
    LET live == record_trade(live_strategy,
                             _calculate_sharpe_ratio(live_strategy, live_sample))
        shadow == record_trade(shadow_strategy,
                               _calculate_sharpe_ratio(shadow_strategy, shadow_sample))
    IN  IF shadow.trade_count >= promotion_threshold_iterations
        THEN _check_promotion_criteria(shadow, live, promotion_alerts)
        ELSE ShadowState(shadow, live, promotion_alerts, FALSE)

\* the whole call runs under the engine's lock
SimulateTradePair(live_sample, shadow_sample) ==
    /\ live_strategy.history_len < MaxTrades
    /\ LET o == simulate_trade_pair(live_sample, shadow_sample)
       IN  /\ shadow_strategy' = o.shadow
           /\ live_strategy' = o.live
           /\ promotion_alerts' = o.alerts
           /\ promotion_alert' = o.alert

ResetShadowStrategy ==
    /\ shadow_strategy' = ShadowStrategy
    /\ UNCHANGED <<live_strategy, promotion_alerts, promotion_alert>>

(***************************************************************************)
(* BehavioralAdversary.                                                    *)
(***************************************************************************)
VARIABLES
    use_shadow_mode,        \* BehavioralAdversary.use_shadow_mode
    api_available,          \* BehavioralAdversary.api_available
    api_error_count,        \* BehavioralAdversary.api_error_count
    adv_results             \* the results of the analyze_psychology calls, oldest first

adversaryVars == <<use_shadow_mode, api_available, api_error_count, adv_results>>

\* how _ai_analysis ends: a result, the RuntimeError of a 451 status, another
\* exception, another exception whose text happens to contain "451"
ApiOutcomes == {"ok", "block", "error", "error_mentioning_451"}

\* "451" in str(e)
Mentions451(api) == api \in {"block", "error_mentioning_451"}

AdversaryOutcome(mode, attempted, shadow, count) ==
    [mode |-> mode, api_attempted |-> attempted, use_shadow_mode |-> shadow,
     api_error_count |-> count]

analyze_psychology_switching_per_call(api) ==
    IF use_shadow_mode \/ ~api_available
    THEN AdversaryOutcome("SHADOW", FALSE, use_shadow_mode, api_error_count)
    ELSE IF api = "ok"
    THEN AdversaryOutcome("API", TRUE, use_shadow_mode, 0)
    ELSE IF Mentions451(api) \/ api_error_count + 1 >= 3
    THEN AdversaryOutcome("SHADOW", TRUE, use_shadow_mode, api_error_count + 1)
    ELSE AdversaryOutcome("HEURISTIC", TRUE, use_shadow_mode, api_error_count + 1)
analyze_psychology(api) ==
    IF use_shadow_mode \/ ~api_available
    THEN AdversaryOutcome("SHADOW", FALSE, use_shadow_mode, api_error_count)
    ELSE IF api = "ok"
    THEN AdversaryOutcome("API", TRUE, use_shadow_mode, 0)
    ELSE IF Mentions451(api) \/ api_error_count + 1 >= 3
    THEN AdversaryOutcome("SHADOW", TRUE, TRUE, api_error_count + 1)
    ELSE AdversaryOutcome("HEURISTIC", TRUE, use_shadow_mode, api_error_count + 1)

AnalyzePsychology(api) ==
    /\ Len(adv_results) < MaxCalls
    /\ LET o == analyze_psychology(api)
       IN  /\ use_shadow_mode' = o.use_shadow_mode
           /\ api_error_count' = o.api_error_count
           /\ adv_results' = Append(adv_results,
                                    [mode |-> o.mode, api_attempted |-> o.api_attempted,
                                     api |-> IF o.api_attempted THEN api ELSE "none"])
    /\ UNCHANGED api_available

(***************************************************************************)
(* The periodic loops that AetherEvo.run gathers.                          *)
(***************************************************************************)
VARIABLES
    running,                \* AetherEvo.running, with the flags of the reasoning loop and the explorer
    loop_pc,                \* where each loop coroutine stands
    process,                \* "running" until AetherEvo.run returns
    errors_logged,          \* errors the loops' handlers have logged
    shutdown_requested,     \* shutdown was called, or a KeyboardInterrupt or a cancellation delivered
    signal_age              \* time since then, in units of 5 s; NoTime before

loopVars == <<running, loop_pc, process, errors_logged, shutdown_requested, signal_age>>

Loops == {"reasoning", "evolution_check", "trading", "status", "explorer", "narrative",
          "predator_suite"}

\* these two sleep at the top of the body, the others at its end
SleepFirstLoops == {"evolution_check", "status"}
\* these two hold nested try blocks whose handlers log and carry on
NestedTryLoops == {"trading", "predator_suite"}

IterationOutcomes == {"ok", "error", "inner_error"}

\* one pass through the body of `while self.running: try: ... except Exception`
iteration_letting_errors_escape(loop, outcome) ==
    IF outcome = "error" THEN "raised" ELSE "sleep"
iteration(loop, outcome) ==
    IF outcome = "error" THEN "error_sleep" ELSE "sleep"

\* what follows a sleep: the loop condition, then the top of the body
after_sleep(loop, pc) ==
    IF ~running THEN "ended"
    ELSE IF loop \in SleepFirstLoops /\ pc = "error_sleep" THEN "sleep"
    ELSE "body"

\* AetherEvo.run once gather has raised: the handler logs, shutdown clears
\* the flags, run returns and the event loop is closed under the other tasks
RunReturns ==
    /\ running' = FALSE
    /\ loop_pc' = [l \in Loops |-> "ended"]
    /\ process' = "exited"

RunIteration(loop, outcome) ==
    /\ process = "running"
    /\ loop_pc[loop] = "body"
    /\ outcome = "inner_error" => loop \in NestedTryLoops
    /\ outcome # "ok" => errors_logged < MaxLoopErrors
    /\ LET pc == iteration(loop, outcome)
       IN  IF pc = "raised"
           THEN RunReturns /\ UNCHANGED errors_logged
           ELSE /\ loop_pc' = [loop_pc EXCEPT ![loop] = pc]
                /\ errors_logged' = IF outcome = "ok" THEN errors_logged
                                    ELSE errors_logged + 1
                /\ UNCHANGED <<running, process>>
    /\ UNCHANGED <<shutdown_requested, signal_age>>

SleepEnds(loop) ==
    /\ process = "running"
    /\ loop_pc[loop] \in {"sleep", "error_sleep"}
    /\ loop_pc' = [loop_pc EXCEPT ![loop] = after_sleep(loop, loop_pc[loop])]
    /\ UNCHANGED <<running, process, errors_logged, shutdown_requested, signal_age>>

\* KeyboardInterrupt, or the cancellation of the gathered tasks: not an
\* Exception, so no loop's handler sees it
Interrupt ==
    /\ process = "running"
    /\ RunReturns
    /\ shutdown_requested' = TRUE
    /\ signal_age' = IF signal_age = NoTime THEN 0 ELSE signal_age
    /\ UNCHANGED errors_logged

\* AetherEvo.shutdown: clears the running flags of the engine, the reasoning
\* loop and the explorer, and touches no task
Shutdown ==
    /\ process = "running"
    /\ running
    /\ running' = FALSE
    /\ shutdown_requested' = TRUE
    /\ signal_age' = 0
    /\ UNCHANGED <<loop_pc, process, errors_logged>>

\* 5 s pass after the signal.  asyncio.sleep(n) returns after n seconds
\* whatever the flags say, and every sleep of the loops is longer than 5 s,
\* so a sleep in progress need not have ended.
shortest_sleep_seconds == 30
SignalTick ==
    /\ process = "running"
    /\ signal_age # NoTime
    /\ signal_age < MaxSignalAge
    /\ shortest_sleep_seconds > 5
    /\ signal_age' = signal_age + 1
    /\ UNCHANGED <<running, loop_pc, process, errors_logged, shutdown_requested>>

(***************************************************************************)
(* The writers of SharedState that AetherEvo.run starts.  AetherEvo builds *)
(* no TradFiOracle and no SentimentAgent, and no gathered coroutine calls  *)
(* update_global_risk or update_sentiment: the narrative loop is the one   *)
(* writer that runs.                                                       *)
(***************************************************************************)
mock_inflow_btc == 500

\* one pass of narrative_loop: check_whale_inflow(mock_inflow_btc), then the sleep
NarrativeLoopIteration ==
    /\ RunIteration("narrative", "ok")
    /\ NarrativeCheck(mock_inflow_btc)

(***************************************************************************)
(* The decision module in memory: evolution_check_loop reloads it after a  *)
(* successful evolve, trading_loop calls its functions.                    *)
(***************************************************************************)
VARIABLES
    loaded_logic,           \* the definitions of the imported active_logic module
    tick_logic,             \* the definitions the latest trading tick called
    evolved_logic,          \* what the latest evolve that returned true wrote
    ticks                   \* trading ticks that computed a signal

runtimeVars == <<loaded_logic, tick_logic, evolved_logic, ticks>>

\* importlib.reload(active_logic) executes the file on disk
reload_keeping_loaded(file, loaded) == loaded
reload(file, loaded) == file

\* one iteration of evolution_check_loop that finds a suggestion, with the
\* reload that follows evolve without an await in between
EvolutionCheckReload(analysis, sharpe, drawdown, screen_fault, io, restore) ==
    /\ EvolutionCheck(analysis, sharpe, drawdown, screen_fault, io, restore)
    /\ LET can_deploy == validate_for_deployment(module_file, sharpe, drawdown)
           evolved == can_deploy /\ ret' = "true"
       IN  /\ loaded_logic' = IF evolved THEN reload(module_file', loaded_logic)
                              ELSE loaded_logic
           /\ evolved_logic' = IF evolved THEN module_file' ELSE evolved_logic
    /\ UNCHANGED <<tick_logic, ticks>>

\* one iteration of trading_loop that reaches calculate_indicators and
\* generate_signal: both are looked up in the module when called
TradingTick ==
    /\ ticks < MaxTicks
    /\ ~is_kill_switch_active
    /\ ticks' = ticks + 1
    /\ tick_logic' = loaded_logic
    /\ UNCHANGED <<loaded_logic, evolved_logic>>

(***************************************************************************)
(* ReasoningLoop.latest_analysis.  Dictionaries live in a heap and are     *)
(* held by reference; the k-th analysis carries k in each of its fields.   *)
(***************************************************************************)
VARIABLES
    analysis_heap,          \* the analysis dictionaries built so far, by reference
    latest_analysis,        \* ReasoningLoop.latest_analysis: a reference, or NoneRef
    reader_pc,              \* a reader coroutine of main.py
    reader_ref,             \* its local `analysis`
    reader_view,            \* the fields it has read
    reads                   \* completed reads

analysisVars == <<analysis_heap, latest_analysis, reader_pc, reader_ref, reader_view, reads>>

NoneRef == 0
NoView == [signal |-> 0, confidence |-> 0]

\* analyze_ohlcv builds a new dictionary
analyze_ohlcv(k) == [signal |-> k, confidence |-> k]

Publication(heap, ref) == [heap |-> heap, ref |-> ref]

\* self.latest_analysis = analysis
publish_in_place(heap, ref, analysis) ==
    IF ref = NoneRef THEN Publication(Append(heap, analysis), Len(heap) + 1)
    ELSE Publication([heap EXCEPT ![ref] = [@ EXCEPT !.signal = analysis.signal]], ref)
publish(heap, ref, analysis) ==
    Publication(Append(heap, analysis), Len(heap) + 1)

\* one pass of ReasoningLoop.run_loop that reaches the assignment
Publish ==
    /\ Len(analysis_heap) < MaxPublications
    /\ LET p == publish(analysis_heap, latest_analysis, analyze_ohlcv(Len(analysis_heap) + 1))
       IN  /\ analysis_heap' = p.heap
           /\ latest_analysis' = p.ref
    /\ UNCHANGED <<reader_pc, reader_ref, reader_view, reads>>

\* analysis = self.reasoning.get_latest_analysis(); if not analysis: continue
ReaderGet ==
    /\ reader_pc = "idle"
    /\ reads < MaxReads
    /\ reader_ref' = latest_analysis
    /\ reader_pc' = IF latest_analysis = NoneRef THEN "idle" ELSE "signal"
    /\ reader_view' = NoView
    /\ reads' = IF latest_analysis = NoneRef THEN reads + 1 ELSE reads
    /\ UNCHANGED <<analysis_heap, latest_analysis>>

\* analysis['signal'], read before an await
ReaderSignal ==
    /\ reader_pc = "signal"
    /\ reader_view' = [reader_view EXCEPT !.signal = analysis_heap[reader_ref].signal]
    /\ reader_pc' = "confidence"
    /\ UNCHANGED <<analysis_heap, latest_analysis, reader_ref, reads>>

\* analysis['confidence'], read after it
ReaderConfidence ==
    /\ reader_pc = "confidence"
    /\ reader_view' = [reader_view EXCEPT !.confidence = analysis_heap[reader_ref].confidence]
    /\ reader_pc' = "idle"
    /\ reads' = reads + 1
    /\ UNCHANGED <<analysis_heap, latest_analysis, reader_ref>>

(***************************************************************************)
(* NarrativePulse instances over the SharedState singleton                 *)
(***************************************************************************)
VARIABLES
    np_last_inflow          \* the reading of the latest check_whale_inflow call

narrativeVars == <<np_last_inflow>>

NoInflow == -1

\* NarrativePulse.__init__: a new instance takes the place of the one in use;
\* get_shared_state() hands it the SharedState that already exists
ConstructNarrative ==
    /\ np_pc = "idle"
    /\ np_whale_dump_risk
    /\ np_whale_dump_risk' = FALSE
    /\ UNCHANGED <<risk_level, sentiment_multiplier, whale_dump_risk, oracle_data, np_pc,
                   np_local, size_pc, size_local, writes, sizings, held, narrative_demoted>>

\* check_whale_inflow(exchange_inflow_btc) on the instance in use
CheckWhaleInflow(exchange_inflow_btc) ==
    /\ NarrativeCheck(exchange_inflow_btc)
    /\ np_last_inflow' = exchange_inflow_btc

(***************************************************************************)
(* ShadowEngine called from several threads.  A call is a sequence of      *)
(* steps between which the interpreter may switch threads; trade_count += 1 *)
(* is a load followed by a store.                                          *)
(***************************************************************************)
VARIABLES
    _lock,                  \* ShadowEngine._lock: the thread inside `with self._lock`, or NoThread
    th_pc,                  \* each thread's position
    th_count,               \* the trade_count a thread loaded for its += 1
    se_calls,               \* calls begun
    se_results,             \* results returned by simulate_trade_pair
    se_since_promotion      \* simulate_trade_pair calls returned since the latest promotion

shadowThreadVars == <<_lock, th_pc, th_count, se_calls, se_results, se_since_promotion>>

Threads == {"t1", "t2"}
NoThread == "none"
ShadowOps == {"simulate", "reset"}

\* threading.Lock.acquire: blocks until the lock is free
acquire_without_exclusion(lock) == TRUE
acquire(lock) == lock = NoThread

\* with self._lock: on entry to simulate_trade_pair or reset_shadow_strategy
ThreadAcquire(t, op) ==
    /\ th_pc[t] = "idle"
    /\ se_calls < MaxThreadCalls
    /\ acquire(_lock)
    /\ _lock' = t
    /\ se_calls' = se_calls + 1
    /\ th_pc' = [th_pc EXCEPT ![t] = IF op = "simulate" THEN "live_load" ELSE "reset"]
    /\ UNCHANGED <<shadowVars, th_count, se_results, se_since_promotion>>

\* live_strategy.record_trade: self.trade_count += 1, the load
ThreadLiveLoad(t) ==
    /\ th_pc[t] = "live_load"
    /\ th_count' = [th_count EXCEPT ![t] = live_strategy.trade_count]
    /\ th_pc' = [th_pc EXCEPT ![t] = "live_store"]
    /\ UNCHANGED <<shadowVars, _lock, se_calls, se_results, se_since_promotion>>

\* ... the store, and the appends to roi_history and sharpe_history
ThreadLiveStore(t, live_sample) ==
    /\ th_pc[t] = "live_store"
    /\ live_strategy' =
          [record_trade(live_strategy, _calculate_sharpe_ratio(live_strategy, live_sample))
              EXCEPT !.trade_count = th_count[t] + 1]
    /\ th_pc' = [th_pc EXCEPT ![t] = "shadow_load"]
    /\ UNCHANGED <<shadow_strategy, promotion_alerts, promotion_alert, _lock, th_count,
                   se_calls, se_results, se_since_promotion>>

\* shadow_strategy.record_trade, likewise
ThreadShadowLoad(t) ==
    /\ th_pc[t] = "shadow_load"
    /\ th_count' = [th_count EXCEPT ![t] = shadow_strategy.trade_count]
    /\ th_pc' = [th_pc EXCEPT ![t] = "shadow_store"]
    /\ UNCHANGED <<shadowVars, _lock, se_calls, se_results, se_since_promotion>>

ThreadShadowStore(t, shadow_sample) ==
    /\ th_pc[t] = "shadow_store"
    /\ shadow_strategy' =
          [record_trade(shadow_strategy,
                        _calculate_sharpe_ratio(shadow_strategy, shadow_sample))
              EXCEPT !.trade_count = th_count[t] + 1]
    /\ th_pc' = [th_pc EXCEPT ![t] = "check"]
    /\ UNCHANGED <<live_strategy, promotion_alerts, promotion_alert, _lock, th_count,
                   se_calls, se_results, se_since_promotion>>

\* the promotion check, return result, and the exit of the with block
ThreadSimulateReturn(t) ==
    /\ th_pc[t] = "check"
    /\ LET o == IF shadow_strategy.trade_count >= promotion_threshold_iterations
                THEN _check_promotion_criteria(shadow_strategy, live_strategy,
                                               promotion_alerts)
                ELSE ShadowState(shadow_strategy, live_strategy, promotion_alerts, FALSE)
       IN  /\ shadow_strategy' = o.shadow
           /\ live_strategy' = o.live
           /\ promotion_alerts' = o.alerts
           /\ promotion_alert' = o.alert
           /\ se_since_promotion' = IF o.alert THEN 0 ELSE se_since_promotion + 1
    /\ se_results' = se_results + 1
    /\ _lock' = NoThread
    /\ th_pc' = [th_pc EXCEPT ![t] = "idle"]
    /\ UNCHANGED <<th_count, se_calls>>

\* reset_shadow_strategy: the assignment and the exit of the with block
ThreadReset(t) ==
    /\ th_pc[t] = "reset"
    /\ shadow_strategy' = ShadowStrategy
    /\ _lock' = NoThread
    /\ th_pc' = [th_pc EXCEPT ![t] = "idle"]
    /\ UNCHANGED <<live_strategy, promotion_alerts, promotion_alert, th_count, se_calls,
                   se_results, se_since_promotion>>

(***************************************************************************)
(* The account at the exchange beside trading_loop                         *)
(***************************************************************************)
VARIABLES
    account_equity,         \* the balance the exchange would report
    signals_after_fall      \* signals trading_loop produced with the account fallen

equityVars == <<account_equity, signals_after_fall>>

\* the account has lost kill_switch_threshold of the initial equity or more
AccountFell ==
    (account_equity - initial_equity) * 100 <= -(kill_switch_threshold_pct * initial_equity)

\* the market moves the account
EquityMoves(new_equity) ==
    /\ new_equity # account_equity
    /\ account_equity' = new_equity
    /\ UNCHANGED signals_after_fall

\* one pass of trading_loop: the kill-switch check, the signal, the sleep;
\* the call of guardrails.update_equity is commented out
TradingLoopIteration ==
    /\ RunIteration("trading", "ok")
    /\ IF is_kill_switch_active
       THEN UNCHANGED <<runtimeVars, signals_after_fall>>
       ELSE /\ TradingTick
            /\ signals_after_fall' = IF AccountFell THEN signals_after_fall + 1
                                     ELSE signals_after_fall
    /\ UNCHANGED account_equity

(***************************************************************************)
(* Specifications                                                          *)
(***************************************************************************)
InitArch ==
    /\ now = 0
    /\ current_equity = initial_equity
    /\ equity_history = <<>>
    /\ kill_switch_triggered = FALSE
    /\ last_evolution_time = NoTime
    /\ module_file = Original
    /\ backup_file = Absent
    /\ evolutions = <<>>
    /\ blacklisted_parameters = <<>>
    /\ history_file = AbsentFile
    /\ evolution_history = <<>>
    /\ ret = "none"
    /\ call = [kill |-> FALSE, screen |-> "skipped", blacklisted |-> FALSE,
               module_changed |-> FALSE, gated |-> FALSE, write_failed |-> FALSE,
               restored |-> TRUE, restore_failed_once |-> FALSE]
    /\ success_times = <<>>

InitShared ==
    /\ risk_level = "NORMAL"
    /\ sentiment_multiplier = 100
    /\ whale_dump_risk = FALSE
    /\ oracle_data = NoPayload
    /\ np_whale_dump_risk = FALSE
    /\ np_pc = "idle"
    /\ np_local = NoLocal
    /\ size_pc = "idle"
    /\ size_local = NoSize
    /\ writes = [oracle |-> 0, sentiment |-> 0, narrative |-> 0]
    /\ sizings = 0
    /\ held = {<<100, "NORMAL", FALSE>>}
    /\ narrative_demoted = FALSE

InitLedger ==
    /\ predictions = <<>>
    /\ audit_log = <<>>

InitSave ==
    /\ save_pc = "idle"
    /\ restarts = 0

\* _get_current_version found no prompt file and saved the base prompt as v0
InitMutator ==
    /\ current_version = 0
    /\ prompt_files = [v \in {0} |-> PromptFile(BASE_SYSTEM_PROMPT)]
    /\ archive_files = {}
    /\ mut_last_evolution_time = NoTime
    /\ mut_ret = NoPrompt
    /\ mut_guard = "skipped"

InitShadow ==
    /\ shadow_strategy = ShadowStrategy
    /\ live_strategy = ShadowStrategy
    /\ promotion_alerts = 0
    /\ promotion_alert = FALSE

\* BehavioralAdversary(deepseek_api_key=..., use_shadow_mode=...)
ConstructAdversary(shadow, has_key) ==
    /\ use_shadow_mode = shadow
    /\ api_available = has_key
    /\ api_error_count = 0
    /\ adv_results = <<>>

\* as AetherEvo constructs it, with an API key in the environment
InitAdversary == ConstructAdversary(FALSE, TRUE)

\* AetherEvo.run has set running and handed the seven coroutines to gather
InitLoops ==
    /\ running = TRUE
    /\ loop_pc = [l \in Loops |-> IF l \in SleepFirstLoops THEN "sleep" ELSE "body"]
    /\ process = "running"
    /\ errors_logged = 0
    /\ shutdown_requested = FALSE
    /\ signal_age = NoTime

\* ReasoningLoop.__init__: latest_analysis = None
InitAnalysis ==
    /\ analysis_heap = <<>>
    /\ latest_analysis = NoneRef
    /\ reader_pc = "idle"
    /\ reader_ref = NoneRef
    /\ reader_view = NoView
    /\ reads = 0

\* ShadowEngine.__init__: self._lock = threading.Lock(); no thread has called yet
InitShadowThreads ==
    /\ _lock = NoThread
    /\ th_pc = [t \in Threads |-> "idle"]
    /\ th_count = [t \in Threads |-> 0]
    /\ se_calls = 0
    /\ se_results = 0
    /\ se_since_promotion = 0

\* the account holds the initial equity; no signal has been produced
InitEquity ==
    /\ account_equity = initial_equity
    /\ signals_after_fall = 0

\* no check_whale_inflow call has been made
InitNarrative ==
    np_last_inflow = NoInflow

\* main.py has imported active_logic; no tick has run
InitRuntime ==
    /\ loaded_logic = Original
    /\ tick_logic = NoCode
    /\ evolved_logic = NoCode
    /\ ticks = 0

Init ==
    /\ InitArch /\ InitShared /\ InitLedger /\ InitSave /\ InitMutator /\ InitShadow
    /\ InitAdversary /\ InitLoops /\ InitRuntime
    /\ InitEquity
    /\ InitShadowThreads
    /\ InitNarrative
    /\ InitAnalysis

vars == <<now, archVars, sharedVars, ledgerVars, saveVars, mutatorVars, shadowVars,
          adversaryVars, loopVars, runtimeVars, analysisVars, narrativeVars, shadowThreadVars, equityVars>>

\* a step of one component leaves the others' state alone
ArchOnly(A) ==
    A /\ UNCHANGED <<sharedVars, ledgerVars, saveVars, mutatorVars, shadowVars,
                     adversaryVars, loopVars, runtimeVars, analysisVars, narrativeVars, shadowThreadVars, equityVars>>
SharedOnly(A) ==
    A /\ UNCHANGED <<now, archVars, ledgerVars, saveVars, mutatorVars, shadowVars, adversaryVars,
                     loopVars, runtimeVars, analysisVars, narrativeVars, shadowThreadVars, equityVars>>
LedgerOnly(A) ==
    A /\ UNCHANGED <<archVars, sharedVars, saveVars, mutatorVars, shadowVars, adversaryVars,
                     loopVars, runtimeVars, analysisVars, narrativeVars, shadowThreadVars, equityVars>>
SaveOnly(A) ==
    A /\ UNCHANGED <<sharedVars, ledgerVars, mutatorVars, shadowVars, adversaryVars,
                     loopVars, runtimeVars, analysisVars, narrativeVars, shadowThreadVars, equityVars>>
MutatorOnly(A) ==
    A /\ UNCHANGED <<archVars, sharedVars, ledgerVars, saveVars, shadowVars, adversaryVars,
                     loopVars, runtimeVars, analysisVars, narrativeVars, shadowThreadVars, equityVars>>
ShadowOnly(A) ==
    A /\ UNCHANGED <<now, archVars, sharedVars, ledgerVars, saveVars, mutatorVars,
                     adversaryVars, loopVars, runtimeVars, analysisVars, narrativeVars, shadowThreadVars, equityVars>>
AdversaryOnly(A) ==
    A /\ UNCHANGED <<now, archVars, sharedVars, ledgerVars, saveVars, mutatorVars, shadowVars,
                     loopVars, runtimeVars, analysisVars, narrativeVars, shadowThreadVars, equityVars>>
LoopsOnly(A) ==
    A /\ UNCHANGED <<now, archVars, sharedVars, ledgerVars, saveVars, mutatorVars, shadowVars,
                     adversaryVars, runtimeVars, analysisVars, narrativeVars, shadowThreadVars, equityVars>>
RuntimeOnly(A) ==
    A /\ UNCHANGED <<now, archVars, sharedVars, ledgerVars, saveVars, mutatorVars, shadowVars,
                     adversaryVars, loopVars, analysisVars, narrativeVars, shadowThreadVars, equityVars>>
\* a step of the evolution check loop: the Architect and the loaded module
ArchRuntime(A) ==
    A /\ UNCHANGED <<sharedVars, ledgerVars, saveVars, mutatorVars, shadowVars, adversaryVars,
                     loopVars, analysisVars, narrativeVars, shadowThreadVars, equityVars>>
AnalysisOnly(A) ==
    A /\ UNCHANGED <<now, archVars, sharedVars, ledgerVars, saveVars,
                     mutatorVars, shadowVars, adversaryVars, loopVars, runtimeVars, narrativeVars, shadowThreadVars, equityVars>>
\* a step of a NarrativePulse call: SharedState and the latest reading
SharedNarrative(A) ==
    A /\ UNCHANGED <<now, archVars, ledgerVars, saveVars,
                     mutatorVars, shadowVars, adversaryVars, loopVars, runtimeVars, analysisVars, shadowThreadVars, equityVars>>
\* a step of a thread inside a ShadowEngine call
ShadowThreads(A) ==
    A /\ UNCHANGED <<now, archVars, sharedVars, ledgerVars, saveVars,
                     mutatorVars, adversaryVars, loopVars, runtimeVars, analysisVars, narrativeVars, equityVars>>
EquityOnly(A) ==
    A /\ UNCHANGED <<now, archVars, sharedVars, ledgerVars, saveVars,
                     mutatorVars, shadowVars, adversaryVars, loopVars, runtimeVars, analysisVars, narrativeVars, shadowThreadVars>>

\* the Architect called directly and from AetherEvo.evolution_check_loop
Next ==
    \/ ArchOnly(Tick)
    \/ ArchOnly(\E a \in Analyses, f \in BOOLEAN, io \in IOFaults, r \in RestoreFaults :
                    Evolve(a, f, io, r))
    \/ ArchOnly(\E a \in LoopAnalyses, sh \in SharpeValues, dd \in DrawdownValues,
                   f \in BOOLEAN, io \in IOFaults, r \in RestoreFaults :
                    EvolutionCheck(a, sh, dd, f, io, r))

Spec == Init /\ [][Next]_vars

\* the evolution check loop and the trading loop around the decision module
NextRuntime ==
    \/ ArchOnly(Tick)
    \/ ArchRuntime(\E a \in LoopAnalyses, sh \in SharpeValues, dd \in DrawdownValues,
                      f \in BOOLEAN, io \in IOFaults, r \in RestoreFaults :
                       EvolutionCheckReload(a, sh, dd, f, io, r))
    \/ RuntimeOnly(TradingTick)

SpecRuntime == Init /\ [][NextRuntime]_vars

\* the reasoning loop publishing and a reader of latest_analysis
NextAnalysis ==
    \/ AnalysisOnly(Publish)
    \/ AnalysisOnly(ReaderGet)
    \/ AnalysisOnly(ReaderSignal)
    \/ AnalysisOnly(ReaderConfidence)

SpecAnalysis == Init /\ [][NextAnalysis]_vars

\* Guardrails alone: the equity feed and the clock
NextGuard ==
    \/ ArchOnly(Tick)
    \/ ArchOnly(\E e \in Equities : Len(equity_history) < MaxHistory /\ UpdateEquity(e))

SpecGuard == Init /\ [][NextGuard]_vars

\* the Architect next to the equity feed, file I/O working
NextKill ==
    \/ ArchOnly(Tick)
    \/ ArchOnly(\E e \in Equities : Len(equity_history) < MaxArchHistory /\ UpdateEquity(e))
    \/ ArchOnly(\E a \in Analyses, f \in BOOLEAN : Evolve(a, f, "ok", "ok"))

SpecKill == Init /\ [][NextKill]_vars

\* the Architect with the EvolutionMemory performance windows, file I/O working
NextMemory ==
    \/ ArchOnly(Tick)
    \/ ArchOnly(\E a \in Analyses, f \in BOOLEAN : Evolve(a, f, "ok", "ok"))
    \/ ArchOnly(\E i \in 1..2, pnl \in PnLs : UpdateWindow(i, pnl))

SpecMemory == Init /\ [][NextMemory]_vars

\* SharedState with its producers and the position sizing
NextShared ==
    \/ SharedOnly(\E c \in SpyChanges, err \in BOOLEAN : OracleUpdate(c, err))
    \/ SharedOnly(\E m \in Multipliers : SentimentUpdate(m))
    \/ SharedOnly(\E x \in Inflows : NarrativeCheck(x))
    \/ SharedOnly(NarrativeSnapshot)
    \/ SharedOnly(NarrativeReadRisk)
    \/ SharedOnly(NarrativeWriteRisk)
    \/ SharedOnly(SizeGetSentiment)
    \/ SharedOnly(SizeGetRisk)
    \/ SharedOnly(SizeGetWhale)

SpecShared == Init /\ [][NextShared]_vars

\* the position sizing beside the sentiment and the narrative producers
NextSizing ==
    \/ SharedOnly(\E m \in Multipliers : SentimentUpdate(m))
    \/ SharedOnly(\E x \in Inflows : NarrativeCheck(x))
    \/ SharedOnly(NarrativeSnapshot)
    \/ SharedOnly(NarrativeReadRisk)
    \/ SharedOnly(NarrativeWriteRisk)
    \/ SharedOnly(SizeGetSentiment)
    \/ SharedOnly(SizeGetRisk)
    \/ SharedOnly(SizeGetWhale)

SpecSizing == Init /\ [][NextSizing]_vars

\* NarrativePulse instances and the Oracle over one SharedState
NextNarrative ==
    \/ SharedNarrative(\E x \in Inflows : CheckWhaleInflow(x))
    \/ SharedOnly(NarrativeSnapshot)
    \/ SharedOnly(NarrativeReadRisk)
    \/ SharedOnly(NarrativeWriteRisk)
    \/ SharedOnly(ConstructNarrative)
    \/ SharedOnly(\E c \in SpyChanges : OracleUpdate(c, FALSE))

SpecNarrative == Init /\ [][NextNarrative]_vars

\* EvolutionMemory and its history file across process restarts
NextSave ==
    \/ ArchOnly(Tick)
    \/ SaveOnly(\E a \in WellFormedAnalyses : RecordEvolutionOpen(a))
    \/ SaveOnly(SaveDump)
    \/ SaveOnly(Restart)

SpecSave == Init /\ [][NextSave]_vars

\* the EvolutionaryMutator and the clock
NextMutator ==
    \/ ArchOnly(Tick)
    \/ MutatorOnly(\E fp \in BOOLEAN, force \in BOOLEAN, response \in CandidatePrompts,
                       fault \in MutatorFaults : EvolvePrompt(fp, force, response, fault))

SpecMutator == Init /\ [][NextMutator]_vars

\* the ShadowEngine
NextShadow ==
    \/ ShadowOnly(\E live_sample \in SharpeSamples, shadow_sample \in SharpeSamples :
                      SimulateTradePair(live_sample, shadow_sample))
    \/ ShadowOnly(ResetShadowStrategy)

SpecShadow == Init /\ [][NextShadow]_vars

\* the ShadowEngine called from several threads
NextShadowThreads ==
    \/ ShadowThreads(\E t \in Threads, op \in ShadowOps : ThreadAcquire(t, op))
    \/ ShadowThreads(\E t \in Threads : ThreadLiveLoad(t))
    \/ ShadowThreads(\E t \in Threads, live_sample \in SharpeSamples :
                         ThreadLiveStore(t, live_sample))
    \/ ShadowThreads(\E t \in Threads : ThreadShadowLoad(t))
    \/ ShadowThreads(\E t \in Threads, shadow_sample \in SharpeSamples :
                         ThreadShadowStore(t, shadow_sample))
    \/ ShadowThreads(\E t \in Threads : ThreadSimulateReturn(t))
    \/ ShadowThreads(\E t \in Threads : ThreadReset(t))

SpecShadowThreads == Init /\ [][NextShadowThreads]_vars

\* the BehavioralAdversary, under any constructor arguments
InitAnyAdversary ==
    /\ InitArch /\ InitShared /\ InitLedger /\ InitSave /\ InitMutator /\ InitShadow
    /\ InitLoops /\ InitRuntime
    /\ InitEquity
    /\ InitShadowThreads
    /\ InitNarrative
    /\ InitAnalysis
    /\ \E shadow \in BOOLEAN, has_key \in BOOLEAN : ConstructAdversary(shadow, has_key)

NextAdversary == AdversaryOnly(\E api \in ApiOutcomes : AnalyzePsychology(api))

SpecAdversary == InitAnyAdversary /\ [][NextAdversary]_vars

\* the gathered loops
NextLoops ==
    \/ LoopsOnly(\E loop \in Loops, outcome \in IterationOutcomes :
                     RunIteration(loop, outcome))
    \/ LoopsOnly(\E loop \in Loops : SleepEnds(loop))
    \/ LoopsOnly(Interrupt)

SpecLoops == Init /\ [][NextLoops]_vars

\* the gathered loops, shutdown and the time after it
NextShutdown ==
    \/ NextLoops
    \/ LoopsOnly(Shutdown)
    \/ LoopsOnly(SignalTick)

SpecShutdown == Init /\ [][NextShutdown]_vars

\* the running system: the gathered loops with the SharedState writes they
\* make; every loop keeps being scheduled
NextSupervisor ==
    \/ LoopsOnly(\E loop \in Loops \ {"narrative"}, outcome \in IterationOutcomes :
                     RunIteration(loop, outcome))
    \/ LoopsOnly(\E loop \in Loops : SleepEnds(loop))
    \/ (NarrativeLoopIteration /\
            UNCHANGED <<now, archVars, ledgerVars, saveVars, mutatorVars, shadowVars,
                        adversaryVars, runtimeVars, analysisVars, narrativeVars, shadowThreadVars, equityVars>>)

SpecSupervisor == Init /\ [][NextSupervisor]_vars /\ WF_vars(NextSupervisor)

\* the gathered loops beside the account; every loop keeps being scheduled
NextEquityFeed ==
    \/ LoopsOnly(\E loop \in Loops \ {"trading"}, outcome \in IterationOutcomes :
                     RunIteration(loop, outcome))
    \/ LoopsOnly(\E loop \in Loops : SleepEnds(loop))
    \/ (TradingLoopIteration /\
            UNCHANGED <<now, archVars, sharedVars, ledgerVars, saveVars, mutatorVars,
                        shadowVars, adversaryVars, analysisVars, narrativeVars,
                        shadowThreadVars>>)
    \/ EquityOnly(\E new_equity \in Equities : EquityMoves(new_equity))

SpecEquityFeed == Init /\ [][NextEquityFeed]_vars /\ WF_vars(NextEquityFeed)

\* the prediction ledger with its auditor
NextLedger ==
    \/ LedgerOnly(\E h \in ElapseHours : Elapse(h))
    \/ LedgerOnly(\E sg \in Signals, o \in Outcomes, c \in Confidences, pr \in PredictionPrices :
                      RecordPrediction(sg, o, c, pr))
    \/ LedgerOnly(\E k \in 1..3, pr \in AuditPrices : AuditTimeframe(k, pr))
    \/ LedgerOnly(\E pr \in AuditPrices \cup {NoPrice} : RunAuditCycle(pr))

SpecLedger == Init /\ [][NextLedger]_vars

\* the auditor of main.py over a ledger with a backlog: each timeframe has
\* its own timer, and each timer keeps firing with a price at hand
InitBacklog ==
    /\ InitArch /\ InitShared /\ InitBacklogLedger /\ InitSave /\ InitMutator /\ InitShadow
    /\ InitAdversary /\ InitLoops /\ InitRuntime
    /\ InitEquity
    /\ InitShadowThreads
    /\ InitNarrative
    /\ InitAnalysis

NextBacklog ==
    \/ LedgerOnly(\E pr \in AuditPrices : AuditTimeframe(1, pr))
    \/ LedgerOnly(\E pr \in AuditPrices : AuditTimeframe(2, pr))
    \/ LedgerOnly(\E pr \in AuditPrices : AuditTimeframe(3, pr))

SpecBacklog ==
    /\ InitBacklog
    /\ [][NextBacklog]_vars
    /\ WF_vars(LedgerOnly(\E pr \in AuditPrices : AuditTimeframe(1, pr)))
    /\ WF_vars(LedgerOnly(\E pr \in AuditPrices : AuditTimeframe(2, pr)))
    /\ WF_vars(LedgerOnly(\E pr \in AuditPrices : AuditTimeframe(3, pr)))

(***************************************************************************)
(* Properties                                                              *)
(***************************************************************************)

\* C1: whatever the analysis, an evolve call made while kill_switch_triggered
\* is true returns false.
KillSwitchRefusesEvolution == call.kill => ret = "false"
KillSwitchRefusalReached == call.kill /\ ret = "false" /\ can_evolve

\* C2: once kill_switch_triggered is true it is true in every later state,
\* whatever equity update_equity receives afterwards.
KillSwitchLatches == [][kill_switch_triggered => kill_switch_triggered']_vars
LatchedAfterRecovery ==
    /\ kill_switch_triggered
    /\ current_equity = initial_equity
    /\ Len(equity_history) = 3

\* C3: when the adversarial screen rejects the candidate, evolve returns
\* false and the active module file is the same before and after the call.
ScreenRejectionLeavesModule == call.screen = "rejected" => (ret = "false" /\ ~call.module_changed)
ScreenRejectionReached == call.screen = "rejected" /\ ret = "false" /\ module_file = Original

\* C4: when the adversarial screen raises while screening the candidate,
\* evolve returns false and the active module file is not written.
ScreenFaultRefusesEvolution == call.screen = "fault" => (ret = "false" /\ ~call.module_changed)
ScreenFaultDeployed == call.screen = "fault" /\ ret = "true" /\ call.module_changed

\* C5: evolve returns true, with the candidate written to the active module
\* path, only if the backtest gate evaluated on that candidate reported
\* can_deploy = true.
DeployedOnlyIfCandidateGated == ret = "true" => call.gated
UngatedCandidateDeployed == ret = "true" /\ call.module_changed /\ ~call.gated

\* C6: when the proposed {reason, suggestion, regime} equals the parameters
\* of a blacklist entry, evolve returns false and does not write the module.
BlacklistedNeverDeployed == call.blacklisted => (ret = "false" /\ ~call.module_changed)
BlacklistedProposalReached ==
    /\ call.blacklisted
    /\ ret = "false"
    /\ can_evolve
    /\ ~kill_switch_triggered

\* C7: two evolve calls that both return true are at least
\* stability_lock_hours apart.
SuccessesSeparatedByLock ==
    \A i \in 1..(Len(success_times) - 1) :
        success_times[i + 1] - success_times[i] >= stability_lock_hours
TwoSuccessesReached == Len(success_times) >= 2

\* C8: evolve returns a boolean for every analysis value and every
\* collaborator or file failure: no exception leaves evolve.
EvolveNeverRaises == ret # "raised"
EvolveRaised == ret = "raised" /\ module_file = Original

\* C9: the size get_adjusted_size returns is the formula applied to a
\* (sentiment, risk, whale) combination that SharedState held at one instant.
SizeFromOneSnapshot ==
    size_pc = "done" =>
        size_local.result \in {AdjustedSize(BaseSize, t[1], t[2], t[3]) : t \in held}
SizeFromMixedReads ==
    /\ size_pc = "done"
    /\ <<size_local.sentiment, size_local.risk, size_local.whale>> \notin held

\* C10: NarrativePulse never changes risk_level from HIGH to NORMAL.
NarrativeNeverDemotes == ~narrative_demoted
NarrativeDemotedOracleHigh == narrative_demoted /\ risk_level = "NORMAL"

\* C11: each SharedState field has one writer: the Oracle payload held in
\* SharedState is always what the Oracle wrote (or the initial empty one),
\* never a payload written by NarrativePulse.
OraclePayloadWrittenByOracleOnly == oracle_data.whale_dump_risk = "absent"
NarrativeOverwroteOraclePayload ==
    /\ oracle_data.source = "market"
    /\ oracle_data.whale_dump_risk = "true"
    /\ np_pc = "idle"

\* C12: a prediction row with audited set has all three success scores.
AuditedRowsFullyScored ==
    \A i \in 1..Len(predictions) :
        predictions[i].audited =>
            \A tf \in {"1h", "4h", "12h"} : predictions[i].success_score[tf] # <<>>
AuditedRowReached == \E i \in 1..Len(predictions) : predictions[i].audited

\* C13: one audit cycle writes the price and score of each
\* (prediction_id, timeframe) pair at most once.
CycleTouchesPairOnce ==
    \A i, j \in 1..Len(audit_log) : audit_log[i] = audit_log[j] => i = j
CycleTouchedTwoTimeframes ==
    \E i, j \in 1..Len(audit_log) :
        audit_log[i][1] = audit_log[j][1] /\ audit_log[i][2] # audit_log[j][2]

\* C14: for an evolution record that update_performance_window has seen
\* past its window end, exactly one holds: its parameters are blacklisted,
\* or it is evaluated with positive PnL.
WindowOutcomeExclusive ==
    \A i \in 1..Len(evolutions) :
        evolutions[i].evaluated =>
            (InBlacklist(evolutions[i].parameters) # (evolutions[i].final_pnl > 0))
BlacklistedAndEvaluatedPositive ==
    /\ Len(evolutions) = 1
    /\ evolutions[1].evaluated
    /\ evolutions[1].final_pnl > 0
    /\ InBlacklist(evolutions[1].parameters)

\* C15: an update_performance_window call made after the record's 2-hour
\* window has closed, with pnl < 0, leaves is_blacklisted(parameters) true;
\* a blacklist entry is only ever added for a record whose window has closed.
NegativeWindowBlacklists ==
    [][/\ \A i \in 1..Len(evolutions) :
            (/\ evolutions'[i] # evolutions[i]
             /\ evolutions'[i].evaluated
             /\ evolutions'[i].final_pnl < 0)
                => is_blacklisted(evolutions[i].parameters)'
       /\ blacklisted_parameters' # blacklisted_parameters =>
            LET entry == blacklisted_parameters'[Len(blacklisted_parameters')]
            IN  /\ entry.pnl < 0
                /\ now - evolutions[entry.evolution_index].start_time > performance_window_hours
      ]_vars
NegativeWindowBlacklisted ==
    \E i \in 1..Len(evolutions) :
        /\ evolutions[i].evaluated
        /\ evolutions[i].final_pnl < 0
        /\ is_blacklisted(evolutions[i].parameters)

\* C16: the history file on disk is at every instant a complete JSON
\* document (or not there yet), never a partially written one.
HistoryFileNeverTorn == history_file.kind # "torn"
RestartLoadedTornFile ==
    /\ restarts > 0
    /\ save_pc = "idle"
    /\ history_file = TornFile
    /\ evolutions = <<>>

\* C17: when the Symmetry Guard rejects the candidate, evolve_prompt returns
\* nothing, current_version is unchanged and no prompt file is written.
RejectedPromptNotInstalled ==
    [][mut_guard' = "rejected" =>
          (mut_ret' = NoPrompt /\ UNCHANGED <<current_version, prompt_files, archive_files>>)
      ]_vars
PromptRejectedAfterInstall ==
    /\ mut_guard = "rejected"
    /\ mut_ret = NoPrompt
    /\ current_version = 1
    /\ DOMAIN prompt_files = {0, 1}

\* C18: a simulate_trade_pair call emits a promotion alert only when the
\* trade count since the last reset has reached promotion_threshold_iterations
\* with the shadow average Sharpe above the live one and at least the ratio
\* threshold; the alert resets both counters; the call that brings the count
\* exactly to the threshold with the shadow superior emits one alert, and a
\* call that leaves the count below the threshold emits none.
ShadowSuperior(shadow, live) ==
    AvgGreater(shadow, live) /\ AvgAtLeast(shadow, sharpe_ratio_threshold)
PromotionAlertAtThreshold ==
    [][live_strategy'.history_len # live_strategy.history_len =>
          /\ promotion_alerts' \in {promotion_alerts, promotion_alerts + 1}
          /\ promotion_alert' = (promotion_alerts' = promotion_alerts + 1)
          /\ promotion_alert' =>
                /\ shadow_strategy.trade_count + 1 >= promotion_threshold_iterations
                /\ ShadowSuperior(shadow_strategy', live_strategy')
                /\ shadow_strategy'.trade_count = 0
                /\ live_strategy'.trade_count = 0
          /\ (/\ shadow_strategy.trade_count + 1 = promotion_threshold_iterations
              /\ ShadowSuperior(shadow_strategy', live_strategy')) => promotion_alert'
          /\ shadow_strategy.trade_count + 1 < promotion_threshold_iterations =>
                ~promotion_alert'
      ]_vars
PromotionAlertEmitted ==
    /\ promotion_alert
    /\ promotion_alerts = 1
    /\ live_strategy.history_len = promotion_threshold_iterations
    /\ shadow_strategy.trade_count = 0
    /\ live_strategy.trade_count = 0

\* C19: once an analyze_psychology call has returned mode SHADOW, every later
\* call on that instance returns mode SHADOW without attempting the API.
ShadowSwitchPermanent ==
    \A i \in 1..Len(adv_results) : \A j \in 1..Len(adv_results) :
        (i < j /\ adv_results[i].mode = "SHADOW") =>
            (adv_results[j].mode = "SHADOW" /\ ~adv_results[j].api_attempted)
ShadowAfterRegionalBlock ==
    /\ Len(adv_results) >= 3
    /\ adv_results[1].mode = "API"
    /\ adv_results[2].mode = "SHADOW"
    /\ adv_results[2].api_attempted
    /\ adv_results[3].mode = "SHADOW"

\* C20: an error raised inside an iteration of a loop is caught, logged and
\* followed by a sleep and the next iteration: no loop and not the process
\* ends unless a shutdown was requested.
LoopsSurviveErrors ==
    (process = "exited" \/ \E l \in Loops : loop_pc[l] = "ended") => shutdown_requested
LoopsRunningAfterErrors ==
    /\ errors_logged = MaxLoopErrors
    /\ process = "running"
    /\ \A l \in Loops : loop_pc[l] = "body"

\* C21: once the shutdown signal has been given for longer than the grace
\* period of 5 s, every loop has ended, a loop that was sleeping included.
grace_period == 1
LoopsEndWithinGrace ==
    (signal_age # NoTime /\ signal_age > grace_period) =>
        \A l \in Loops : loop_pc[l] = "ended"
LoopSleepingPastGrace ==
    /\ ~running
    /\ signal_age > grace_period
    /\ loop_pc["predator_suite"] = "sleep"
    /\ loop_pc["explorer"] = "sleep"

\* C22: while the Supervisor runs, the Oracle and the SentimentProducer run
\* as periodic tasks, so SharedState.risk_level and sentiment_multiplier get
\* written by their producers.
ProducersRefreshSharedState == <>(writes.oracle > 0 /\ writes.sentiment > 0)
NarrativeRanProducersSilent ==
    /\ writes.narrative = MaxWrites
    /\ writes.oracle = 0
    /\ writes.sentiment = 0
    /\ process = "running"
    /\ sentiment_multiplier = 100
    /\ risk_level = "NORMAL"

\* C23: once an evolve call has returned true, every later tick of the
\* trading loop computes its signal with the module that call wrote.
TicksUseEvolvedModule ==
    [][(ticks' # ticks /\ evolved_logic # NoCode) => tick_logic' = evolved_logic]_vars
TickAfterEvolution ==
    /\ ticks = 2
    /\ evolved_logic # NoCode
    /\ tick_logic = evolved_logic
    /\ tick_logic # Original

\* C24: a reader of latest_analysis that runs while the ReasoningLoop
\* publishes sees the fields of one analysis, never a mixture of two.
ReaderSeesOneAnalysis ==
    (reader_pc = "idle" /\ reader_view # NoView) =>
        reader_view.signal = reader_view.confidence
ReaderOvertakenByPublication ==
    /\ reader_pc = "idle"
    /\ reader_view # NoView
    /\ reader_ref # NoneRef
    /\ reader_ref < latest_analysis

\* C25: get_adjusted_size(base) returns base x sentiment x (0.5 if the risk
\* it read is HIGH, else 1) x (0.7 if it read a whale risk, else 1), in 1e-4:
\* sentiment 1.0, NORMAL and no whale risk give base, and sentiment 0.5 with
\* HIGH and no whale risk gives 25 on base 100.
SizeFollowsFormula ==
    size_pc = "done" =>
        /\ size_local.result =
              BaseSize * size_local.sentiment
                  * (IF size_local.risk = "HIGH" THEN 5 ELSE 10)
                  * (IF size_local.whale THEN 7 ELSE 10)
        /\ (size_local.sentiment = 100 /\ size_local.risk = "NORMAL" /\ ~size_local.whale)
              => size_local.result = BaseSize * 10000
        /\ (size_local.sentiment = 50 /\ size_local.risk = "HIGH" /\ ~size_local.whale)
              => size_local.result = 25 * 10000
SizeQuarteredAndWhaleSized ==
    /\ size_pc = "done"
    /\ size_local.whale
    /\ size_local.risk = "HIGH"
    /\ size_local.sentiment = 50
    /\ size_local.result = 175000

\* C26: SharedState.sentiment_multiplier lies in [0.5, 1.5] in every
\* reachable state, whatever value a producer hands to set_sentiment_multiplier.
SentimentWithinBounds ==
    /\ sentiment_multiplier >= 50
    /\ sentiment_multiplier <= 150
SentimentClampedAtBothBounds ==
    /\ writes.sentiment = 2
    /\ sentiment_multiplier = 50
    /\ \E h \in held : h[1] = 150

\* C27: a prediction whose score has been set for 1h, 4h and 12h is marked
\* audited, and no unaudited query, for any timeframe and minimum age,
\* returns it any more.
FullyScoredRowLeavesQueries ==
    \A i \in 1..Len(predictions) :
        (\A tf \in {"1h", "4h", "12h"} : predictions[i].success_score[tf] # <<>>) =>
            /\ predictions[i].audited
            /\ \A tf \in {"1h", "4h", "12h"} : \A age \in {1, 4, 12} :
                  LET found == get_unaudited_predictions(predictions, tf, age, now)
                  IN  \A j \in 1..Len(found) : found[j].id # predictions[i].id
FullyScoredRowBesideOpenRow ==
    /\ Len(predictions) = 2
    /\ \A tf \in {"1h", "4h", "12h"} : predictions[1].success_score[tf] # <<>>
    /\ predictions[1].audited
    /\ Len(get_unaudited_predictions(predictions, "4h", 4, now)) = 1

\* C28: update_equity(new) appends (now, new); when the switch is not yet
\* latched it latches exactly when (new - e0) / e0 <= -3%, e0 being the
\* equity of the earliest entry no older than one hour: a drop of exactly
\* the threshold triggers, an entry older than one hour is not compared.
UpdateEquityLatchesAtThreshold ==
    [][Len(equity_history') = Len(equity_history) + 1 =>
          LET h == equity_history'
              new == current_equity'
              first == CHOOSE i \in 1..Len(h) :
                           /\ h[i].timestamp >= now - 1
                           /\ \A j \in 1..(i - 1) : h[j].timestamp < now - 1
              e0 == h[first].equity
          IN  /\ h[Len(h)] = [timestamp |-> now, equity |-> new]
              /\ ~kill_switch_triggered =>
                    (kill_switch_triggered' <=> (new - e0) * 100 <= -(3 * e0))
      ]_vars
TriggeredAtExactThreshold ==
    /\ kill_switch_triggered
    /\ Len(equity_history) = 2
    /\ equity_history[1] = [timestamp |-> 0, equity |-> 1000]
    /\ equity_history[2] = [timestamp |-> 1, equity |-> 970]

\* C29: when the write of the candidate fails after the backup was taken,
\* evolve returns false, and if the restore from the backup succeeds the
\* module file holds what it held before the call.
FailedWriteRestoresModule ==
    [][call'.write_failed =>
          (ret' = "false" /\ (call'.restored => module_file' = module_file))]_vars
FailedWriteRestored ==
    /\ call.write_failed
    /\ call.restored
    /\ ret = "false"
    /\ backup_file = Original
    /\ module_file = Original

\* C30: after an evolve call in which the write of the candidate and the
\* restore from the backup both failed, every later evolve call returns
\* false and leaves the module file alone.
EvolutionsDisabledAfterFailedRestore ==
    [][call.restore_failed_once => (ret' # "true" /\ module_file' = module_file)]_vars
EvolvedAfterFailedRestore ==
    /\ call.restore_failed_once
    /\ ~call.write_failed
    /\ ret = "true"
    /\ call.module_changed

\* C31: after every NarrativePulse.check_whale_inflow(x) has returned,
\* SharedState.whale_dump_risk equals (x > whale_threshold), whatever the flag
\* was before and whichever NarrativePulse instance set it.
WhaleRiskFollowsLatestReading ==
    (np_pc = "idle" /\ np_last_inflow # NoInflow)
        => (whale_dump_risk = (np_last_inflow > whale_threshold_btc))
WhaleRiskSurvivesNormalReading ==
    /\ np_pc = "idle"
    /\ np_last_inflow # NoInflow
    /\ np_last_inflow <= whale_threshold_btc
    /\ ~np_whale_dump_risk
    /\ whale_dump_risk

\* C32: after every evolve_prompt call, however it ended,
\* EvolutionaryMutator.current_version is the largest N for which
\* adversary_v{N}.txt exists.
VersionIsLargestPromptFile ==
    /\ current_version \in DOMAIN prompt_files
    /\ \A v \in DOMAIN prompt_files : v <= current_version
VersionAheadOfPromptFiles ==
    /\ mut_guard = "passed"
    /\ mut_ret = NoPrompt
    /\ current_version = 1
    /\ DOMAIN prompt_files = {0}

\* C33: ShadowEngine calls from several threads are serialized: at most one
\* thread is inside a call, and whenever no call is in progress the live
\* strategy holds one recorded trade per result returned and its trade_count
\* counts the calls returned since the latest promotion.
ShadowCallsSerialized ==
    /\ \A t \in Threads, u \in Threads :
          (th_pc[t] # "idle" /\ th_pc[u] # "idle") => t = u
    /\ (\A t \in Threads : th_pc[t] = "idle") =>
          /\ live_strategy.history_len = se_results
          /\ live_strategy.trade_count = se_since_promotion
TradesAroundReset ==
    /\ \A t \in Threads : th_pc[t] = "idle"
    /\ se_results = 2
    /\ se_calls = 3
    /\ live_strategy.history_len = 2
    /\ shadow_strategy.history_len = 1

\* C34: an error of the API that is not a regional block switches the
\* adversary to SHADOW exactly when it is the third consecutive failed attempt;
\* a first or second one yields HEURISTIC.
NonBlockErrors == {"error", "error_mentioning_451"}
NonBlockErrorsSwitchAtThird ==
    \A i \in 1..Len(adv_results) :
        adv_results[i].api \in NonBlockErrors =>
            (adv_results[i].mode = "SHADOW"
                <=> (/\ i >= 3
                     /\ adv_results[i - 1].api \in NonBlockErrors
                     /\ adv_results[i - 2].api \in NonBlockErrors))
ShadowAtFirstNonBlockError ==
    /\ Len(adv_results) >= 2
    /\ adv_results[1].mode = "API"
    /\ adv_results[2].api = "error_mentioning_451"
    /\ adv_results[2].mode = "SHADOW"
    /\ use_shadow_mode

\* C35: whenever Architect.evolve returns false, whatever the reason, the
\* active module file holds the content it held before the call.
FalseLeavesModuleIntact ==
    [][ret' = "false" => module_file' = module_file]_vars
ModuleLostToDamagedBackup ==
    /\ ret = "false"
    /\ call.module_changed
    /\ ~call.write_failed
    /\ call.restored
    /\ backup_file = Truncated
    /\ module_file = Truncated

SuggestionLeadsToEvolution ==
    [][\A a \in LoopAnalyses :
          (/\ a.shape = "ok"
           /\ can_evolve
           /\ ~is_kill_switch_active
           /\ ~is_blacklisted(Parameters(a))
           /\ Evolve(a, FALSE, "ok", "ok"))
              => ret' = "true"]_vars
OwnCandidateRejected ==
    /\ ret = "false"
    /\ call.screen = "rejected"
    /\ ~call.kill
    /\ ~call.blacklisted
    /\ last_evolution_time = NoTime
    /\ module_file = Original
    /\ backup_file = Absent

\* C38: while the Supervisor runs, a fall of the account's equity by
\* kill_switch_threshold or more reaches Guardrails.update_equity, so the
\* kill-switch eventually latches.
FallenEquities ==
    {e \in Equities : (e - initial_equity) * 100 <= -(kill_switch_threshold_pct * initial_equity)}
EquityFallLatchesKillSwitch == (account_equity \in FallenEquities) ~> kill_switch_triggered
SignalsAfterEquityFall ==
    /\ AccountFell
    /\ signals_after_fall = MaxTicks
    /\ ~kill_switch_triggered
    /\ equity_history = <<>>
    /\ current_equity = initial_equity
    /\ process = "running"

\* C39: between ShadowEngine operations, live_strategy.trade_count equals
\* shadow_strategy.trade_count, across simulate calls, promotion resets and
\* reset_shadow_strategy calls.
TradeCountsPaired ==
    live_strategy.trade_count = shadow_strategy.trade_count
LiveAheadAfterShadowReset ==
    /\ shadow_strategy = ShadowStrategy
    /\ live_strategy.trade_count = 2
    /\ live_strategy.history_len = 2
    /\ promotion_alerts = 0

====
